---- MODULE Spec2Model ----
(***************************************************************************)
(* State-machine model of the timeline editor (ClassicEditor), its         *)
(* playback loop, its frame compositor, its video export (handleRender)    *)
(* and the styled-text parsers of the AI shorts generator, and of the      *)
(* backend's shorts, report and PDF routes over Redis with the Puppeteer    *)
(* worker that serves the PDF tasks.                                       *)
(*                                                                         *)
(* Time is counted in integer milliseconds.  A time that is not a whole    *)
(* number of milliseconds (frame i of an export is painted for i / FPS     *)
(* seconds) is passed as a fraction tn / td of milliseconds.               *)
(***************************************************************************)
EXTENDS Integers, Sequences, FiniteSets, TLC

\* ------------------------------------------------------------------ bounds
MaxClips == 3        \* clips on a timeline
MaxIds == 3          \* calls of createId() for clips in one run (Spec)
MaxClock == 6000     \* last requestAnimationFrame timestamp that is modelled
MaxEdits == 1        \* timeline edits made while one export is in flight
MaxSettingEdits == 2 \* fields edited in the settings modal in one run
MaxPieces == 3        \* pieces a subtitle text is put together from
MaxInspectorEdits == 2  \* fields edited in the clip inspector in one run
MaxShorts == 2       \* shorts stored in one project
MaxServerClock == 62000  \* last value of the server's Date.now() that is modelled, ms
MaxPdfTasks == 2     \* PDF tasks pushed in one run
MaxIdleClock == 1000 \* last value the server's clock takes while no PDF request polls, ms
MaxRequests == 2     \* shorts requests handled at the same time

\* ------------------------------------------------------- program constants
FPS == 30
DEFAULT_CLIP_DURATION == 3
MsPerSecond == 1000
UsPerSecond == 1000000

\* ------------------------------------------------------------------ values
Undefined == -1                       \* a MediaFile whose duration was never probed
NoId == 0                             \* null / no clip selected
Placeholder == 0                      \* the 'Add clips to start' frame
NoAudio == [id |-> 0, duration |-> Undefined]     \* clip.audio === undefined

NoImage == [id |-> ""]                  \* clip.image === undefined
NewClipSubtitle == <<"N", "e", "w", " ", "c", "l", "i", "p", " ", "s", "u", "b", "t", "i", "t", "l", "e">>

\* the clip handleAddEmptyClip creates
NewClip(id) ==
    [id |-> id, audio |-> NoAudio, image |-> NoImage, subtitle |-> NewClipSubtitle,
     backgroundType |-> "color", backgroundColor |-> "#1e293b"]

Range_(f) == { f[x] : x \in DOMAIN f }

\* The audio bin after handleFileDrop: one file whose metadata failed to load
\* (duration stays undefined) and three files with probed durations.
AudioDurations == {Undefined, 1000, 1250, 2000}
AudioBin == { [id |-> 100 + d \div 10, duration |-> d] : d \in AudioDurations \ {Undefined} }
              \cup { [id |-> 99, duration |-> Undefined] }
AudioChoices == AudioBin \cup {NoAudio}

Deltas == {1000, 2500}                \* time between two animation frames, ms
SeekPositions == {0, 500, 2000, 4250} \* slider positions (step 0.01 s), ms

VARIABLES
    clips,             \* useState<Clip[]>: sequence of [id, audio]
    selectedClipId,    \* useState<string | null>
    nextId,            \* next value createId() returns
    totalDuration,     \* useMemo over clips, ms
    isPlaying,         \* useState(false)
    playbackTime,      \* useState(0), ms
    lastTimestampRef,  \* useRef(0)
    canvas,            \* what the preview canvas shows: a clip id or Placeholder
    settings,          \* useState<ProjectSettings>
    settingEdits,      \* number of edits made in the settings modal
    editCount,         \* edits counted: those made while the export is in flight, or in the inspector
    isRendering,       \* useState(false)
    renderProgress,    \* useState(0), whole percent
    renderMessage,     \* useState('')
    generatedVideoUrl, \* useState<string | null>(null)
    alertShown,        \* text of the alert() raised by handleRender, "" when none
    pc,                \* the await at which the running handleRender is suspended
    rClips,            \* clips as closed over by the running handleRender
    rTemplate,         \* settings.template as closed over (through drawFrame)
    rTotalDuration,    \* totalDuration as closed over
    audioTracks,       \* const audioTracks of the running handleRender
    trackIndex,        \* position of the for..of loop over audioTracks
    currentTimestamp,  \* let currentTimestamp, microseconds
    audioChunks,       \* AudioData handed to audioEncoder.encode: [audio, timestamp]
    videoFrames,       \* VideoFrames handed to videoEncoder.encode: [clip, template, timestamp]
    videoEncoderState, \* "none", "configured" or "closed"
    audioEncoderState, \* "none", "configured" or "closed"
    lastError,         \* text of the failure met by the running export, "none" when none
    subtitle,          \* clip.subtitle of the clip on screen, a sequence of characters
    defaultOpacity,    \* the defaultOpacity argument of the two opacity parsers
    parsedCanvas,      \* text and opacity drawStyledTextWithBackground arrives at
    parsedPreview,     \* what parseTextAndBgOpacity returns
    colorRuns,         \* what parseColoredText returns
    canvasSubtitle,    \* the texts drawMediaFrame fills for the subtitle, line by line
    previewSubtitle,   \* the texts the fullscreen preview shows for the subtitle
    imageElements,     \* useRef: the preloaded HTMLImageElement under each key
    painted,           \* what the last drawMediaFrame call painted, layer by layer
    lastCall,          \* the handler the user interface dispatched last, with its arguments
    projects,          \* Redis: the shorts of each stored project, by project id
    serverClock,       \* Date.now() on the server, ms
    puppeteerTasks,    \* Redis list puppeteer_tasks_list, head first
    puppeteerResponses,\* Redis keys puppeteer_response:<task id>, by task id
    pdfRequest,        \* the report/pdf request in flight: where its handler stands
    httpResponse,      \* the response the server sent last
    pushedTasks,       \* every task lPush was called with, oldest first
    preview,           \* the fullscreen PreviewPlayer: its state, refs and pending frame
    inFlight           \* the shorts requests being handled: where each handler stands

timelineVars == <<clips, selectedClipId, nextId, totalDuration>>
playVars == <<isPlaying, playbackTime, lastTimestampRef>>
renderVars == <<isRendering, renderProgress, renderMessage, generatedVideoUrl, alertShown>>
closureVars == <<rClips, rTemplate, rTotalDuration, audioTracks>>
encodeVars == <<trackIndex, currentTimestamp, audioChunks, videoFrames,
                videoEncoderState, audioEncoderState>>
exportVars == <<renderVars, closureVars, encodeVars, pc, lastError>>
settingsVars == <<settings, settingEdits>>
textVars == <<subtitle, defaultOpacity, parsedCanvas, parsedPreview, colorRuns,
              canvasSubtitle, previewSubtitle, imageElements, painted>>
vars == <<clips, selectedClipId, nextId, totalDuration, isPlaying, playbackTime,
          lastTimestampRef, canvas, settingsVars, editCount, exportVars, textVars, lastCall,
          projects, serverClock, puppeteerTasks, puppeteerResponses, pdfRequest,
          httpResponse, pushedTasks, preview, inFlight>>
serverVars == <<projects, serverClock, puppeteerTasks, puppeteerResponses, pdfRequest,
                httpResponse, pushedTasks>>

\* what lastCall holds: no handler was dispatched yet, or a handler and its arguments.
\* The handlers of the page run in the browser and leave the server as it is.
NoCall == [name |-> "none", args |-> <<>>]
Called(name, args) ==
    lastCall' = [name |-> name, args |-> args] /\ UNCHANGED <<serverVars, preview, inFlight>>
Untraced == UNCHANGED <<lastCall, serverVars, preview, inFlight>>
\* the same record for the route handlers and loops of the server and the worker
Handled(name, args) == lastCall' = [name |-> name, args |-> args] /\ UNCHANGED inFlight

\* ------------------------------------------------------- timeline and time
\* the fallback of the fullscreen player (|| 0) used in place of the editor's
ClipDurationZeroFallback(c) ==
    IF c.audio # NoAudio /\ c.audio.duration # Undefined THEN c.audio.duration ELSE 0

\* clip.audio?.duration || DEFAULT_CLIP_DURATION, in ms
ClipDuration(c) ==
    IF c.audio # NoAudio /\ c.audio.duration # Undefined /\ c.audio.duration # 0
    THEN c.audio.duration
    ELSE DEFAULT_CLIP_DURATION * MsPerSecond

RECURSIVE ReduceDuration(_, _, _)
ReduceDuration(cl, i, sum) ==
    IF i > Len(cl) THEN sum
    ELSE ReduceDuration(cl, i + 1, sum + ClipDuration(cl[i]))

\* clips.reduce((sum, c) => sum + (c.audio?.duration || DEFAULT_CLIP_DURATION), 0)
ComputeTotalDuration(cl) == ReduceDuration(cl, 1, 0)

\* the loop of drawFrame with <= in place of <
RECURSIVE FindActiveInclusive(_, _, _, _, _)
FindActiveInclusive(cl, i, accumulatedTime, tn, td) ==
    IF i > Len(cl) THEN 0
    ELSE IF tn <= (accumulatedTime + ClipDuration(cl[i])) * td THEN i
    ELSE FindActiveInclusive(cl, i + 1, accumulatedTime + ClipDuration(cl[i]), tn, td)

\* The loop of drawFrame: index of the first clip with time < accumulatedTime + duration,
\* 0 when the loop ends without a break.  time = tn / td ms.
RECURSIVE FindActive(_, _, _, _, _)
FindActive(cl, i, accumulatedTime, tn, td) ==
    IF i > Len(cl) THEN 0
    ELSE IF tn < (accumulatedTime + ClipDuration(cl[i])) * td THEN i
    ELSE FindActive(cl, i + 1, accumulatedTime + ClipDuration(cl[i]), tn, td)

\* drawFrame(ctx, time): the id of the clip handed to drawMediaFrame, or Placeholder
drawFrame(cl, tn, td) ==
    LET i == FindActive(cl, 1, 0, tn, td)
    IN  IF i # 0 THEN cl[i].id
        ELSE IF Len(cl) > 0 THEN cl[Len(cl)].id
        ELSE Placeholder

\* currentPlaybackData: clipIndex is 0-based as in the source; clip is the clip's id,
\* NoId when the expression clips[...] is undefined.
currentPlaybackData(cl, total, time) ==
    IF total = 0 \/ time >= total
    THEN [clipIndex |-> Len(cl) - 1,
          timeInClip |-> IF Len(cl) > 0 THEN ClipDuration(cl[Len(cl)])
                         ELSE DEFAULT_CLIP_DURATION * MsPerSecond,
          clip |-> IF Len(cl) > 0 THEN cl[Len(cl)].id ELSE NoId]
    ELSE LET i == FindActive(cl, 1, 0, time, 1)
         IN  IF i # 0
             THEN [clipIndex |-> i - 1,
                   timeInClip |-> time - ReduceDuration(SubSeq(cl, 1, i - 1), 1, 0),
                   clip |-> cl[i].id]
             ELSE [clipIndex |-> 0, timeInClip |-> 0,
                   clip |-> IF Len(cl) > 0 THEN cl[1].id ELSE NoId]

ClipIds(cl) == { cl[i].id : i \in 1..Len(cl) }

IndexOfId(cl, id) ==
    IF id \in ClipIds(cl) THEN CHOOSE i \in 1..Len(cl) : cl[i].id = id ELSE 0

\* arrayMove(items, from, to) of @dnd-kit/sortable, 1-based here
arrayMove(items, from, to) ==
    LET without == SubSeq(items, 1, from - 1) \o SubSeq(items, from + 1, Len(items))
    IN  SubSeq(without, 1, to - 1) \o <<items[from]>> \o SubSeq(without, to, Len(without))

\* a filter that keeps the clip with the id and drops the others
FilterKeep(cl, clipId) == SelectSeq(cl, LAMBDA c : c.id = clipId)

\* prev.filter(c => c.id !== clipId)
FilterOut(cl, clipId) == SelectSeq(cl, LAMBDA c : c.id # clipId)

\* prev.map(c => c.id === clipId ? { ...c, audio } : c)
MapAudio(cl, clipId, audio) ==
    [i \in 1..Len(cl) |-> IF cl[i].id = clipId THEN [cl[i] EXCEPT !.audio = audio] ELSE cl[i]]

\* prev.map(c => c.id === clipId ? { ...c, [field]: value } : c)
MapField(cl, clipId, field, value) ==
    [i \in 1..Len(cl) |-> IF cl[i].id = clipId THEN [cl[i] EXCEPT ![field] = value] ELSE cl[i]]

\* The re-render that follows setClips: the memo of totalDuration is recomputed and
\* the repaint effect draws the frame for the current playbackTime.
Rerender(cl, time) ==
    /\ totalDuration' = ComputeTotalDuration(cl)
    /\ canvas' = drawFrame(cl, time, 1)

\* ------------------------------------------------------ timeline operations
handleAddEmptyClip ==
    /\ nextId <= MaxIds
    /\ Len(clips) < MaxClips
    /\ clips' = Append(clips, NewClip(nextId))
    /\ selectedClipId' = nextId
    /\ nextId' = nextId + 1
    /\ Rerender(clips', playbackTime)
    /\ UNCHANGED <<playVars, settingsVars, exportVars, textVars>>

handleDeleteClip(clipId) ==
    /\ clipId \in ClipIds(clips)
    /\ clips' = FilterOut(clips, clipId)
    /\ selectedClipId' = IF selectedClipId = clipId THEN NoId ELSE selectedClipId
    /\ Rerender(clips', playbackTime)
    /\ UNCHANGED <<nextId, playVars, settingsVars, exportVars, textVars>>

handleDragEnd(active, over) ==
    /\ active \in ClipIds(clips)
    /\ over \in ClipIds(clips) \cup {NoId}
    /\ clips' = IF over # NoId /\ active # over
                THEN arrayMove(clips, IndexOfId(clips, active), IndexOfId(clips, over))
                ELSE clips
    /\ Rerender(clips', playbackTime)
    /\ UNCHANGED <<selectedClipId, nextId, playVars, settingsVars, exportVars, textVars>>

handleTimelineClipClick(clipId) ==
    /\ clipId \in ClipIds(clips)
    /\ selectedClipId' = IF clipId = selectedClipId THEN NoId ELSE clipId
    /\ UNCHANGED <<clips, nextId, totalDuration, playVars, canvas, settingsVars, exportVars, textVars>>

\* called by the clip inspector for the selected clip; audioId '' finds no audio
handleClipAudioChange(clipId, audio) ==
    /\ clipId \in ClipIds(clips)
    /\ clipId = selectedClipId
    /\ audio \in AudioChoices
    /\ clips' = MapAudio(clips, clipId, audio)
    /\ Rerender(clips', playbackTime)
    /\ UNCHANGED <<selectedClipId, nextId, playVars, settingsVars, exportVars, textVars>>

\* the inspector shows the selected clip and calls the handlers with its id
InspectorUpdate(clipId, cl) ==
    /\ clipId \in ClipIds(clips)
    /\ clipId = selectedClipId
    /\ clips' = cl
    /\ Rerender(clips', playbackTime)
    /\ UNCHANGED <<selectedClipId, nextId, playVars, settingsVars, exportVars, textVars>>

handleClipSubtitleChange(clipId, text) ==
    InspectorUpdate(clipId, MapField(clips, clipId, "subtitle", text))

handleClipBackgroundTypeChange(clipId, type) ==
    InspectorUpdate(clipId, MapField(clips, clipId, "backgroundType", type))

handleClipBackgroundColorChange(clipId, color) ==
    InspectorUpdate(clipId, MapField(clips, clipId, "backgroundColor", color))

\* images.find(img => img.id === imageId), then { ...c, image, backgroundType: 'image' }
handleClipImageChange(clipId, image) ==
    InspectorUpdate(clipId, MapField(MapField(clips, clipId, "image", image),
                                     clipId, "backgroundType", "image"))

\* values the inspector can hand over
ImageBin == { [id |-> "id_201"] }
ImageChoices == ImageBin \cup {NoImage}
BackgroundTypes == {"image", "color"}
UserColors == {"#ff0000"}
UserSubtitles == { <<"h", "i">> }
InspectorAudio == { a \in AudioChoices : a.duration \in {Undefined, 2000} }

\* ------------------------------------------------------------ playback loop
\* animatePlayback without the test of isPlaying
animatePlaybackAlways(timestamp) ==
    LET last == IF lastTimestampRef = 0 THEN timestamp ELSE lastTimestampRef
        newTime == playbackTime + (timestamp - last)
    IN  /\ timestamp <= MaxClock
        /\ lastTimestampRef' = timestamp
        /\ IF newTime >= totalDuration
           THEN isPlaying' = FALSE /\ playbackTime' = totalDuration
           ELSE isPlaying' = isPlaying /\ playbackTime' = newTime
        /\ canvas' = drawFrame(clips, playbackTime', 1)
        /\ UNCHANGED <<timelineVars, settingsVars, editCount, exportVars, textVars>>

\* animatePlayback with > in place of >= and without the clamp
animatePlaybackNoClamp(timestamp) ==
    LET last == IF lastTimestampRef = 0 THEN timestamp ELSE lastTimestampRef
        newTime == playbackTime + (timestamp - last)
    IN  /\ timestamp <= MaxClock
        /\ lastTimestampRef' = timestamp
        /\ IF isPlaying
           THEN IF newTime > totalDuration
                THEN isPlaying' = FALSE /\ playbackTime' = newTime
                ELSE isPlaying' = isPlaying /\ playbackTime' = newTime
           ELSE UNCHANGED <<isPlaying, playbackTime>>
        /\ canvas' = drawFrame(clips, playbackTime', 1)
        /\ UNCHANGED <<timelineVars, settingsVars, editCount, exportVars, textVars>>

\* animatePlayback(timestamp) followed by the repaint effect.  isPlaying and
\* totalDuration are the values of the render whose effect scheduled the callback;
\* the effect re-subscribes whenever either changes, so they are the current ones.
animatePlayback(timestamp) ==
    LET last == IF lastTimestampRef = 0 THEN timestamp ELSE lastTimestampRef
        deltaTime == timestamp - last
        newTime == playbackTime + deltaTime
    IN  /\ timestamp <= MaxClock
        /\ lastTimestampRef' = timestamp
        /\ IF isPlaying
           THEN IF newTime >= totalDuration
                THEN isPlaying' = FALSE /\ playbackTime' = totalDuration
                ELSE isPlaying' = isPlaying /\ playbackTime' = newTime
           ELSE UNCHANGED <<isPlaying, playbackTime>>
        /\ canvas' = drawFrame(clips, playbackTime', 1)
        /\ UNCHANGED <<timelineVars, settingsVars, editCount, exportVars, textVars>>

handlePlayPause ==
    /\ isPlaying' = ~isPlaying
    /\ UNCHANGED <<timelineVars, playbackTime, lastTimestampRef, canvas, settingsVars, editCount, exportVars, textVars>>

\* the position slider: min 0, max totalDuration || 1, onChange sets playbackTime
SliderMax == IF totalDuration # 0 THEN totalDuration ELSE MsPerSecond

\* the slider's onChange without the repaint effect that follows the new playbackTime
SeekToWithoutRepaint(value) ==
    /\ 0 <= value /\ value <= SliderMax
    /\ playbackTime' = value
    /\ UNCHANGED <<canvas, timelineVars, isPlaying, lastTimestampRef, settingsVars, editCount, exportVars, textVars>>

SeekTo(value) ==
    /\ 0 <= value /\ value <= SliderMax
    /\ playbackTime' = value
    /\ canvas' = drawFrame(clips, value, 1)
    /\ UNCHANGED <<timelineVars, isPlaying, lastTimestampRef, settingsVars, editCount, exportVars, textVars>>


\* ------------------------------------------------------------------ settings
Templates == {"classic-dark", "mobi-light", "exam-korean"}

\* TEMPLATE_PRESETS.  The literal texts of the presets are Korean; each is written
\* here as an ASCII stand-in, '' stays "".
TEMPLATE_PRESETS(template) ==
    CASE template = "classic-dark" ->
           [titleLine1 |-> "[color=#ffffff]classic title 1[/color]", titleLine1FontSize |-> 110,
            titleLine1StrokeSize |-> 8,
            titleLine2 |-> "[color=#ffff00]classic title 2[/color]", titleLine2FontSize |-> 120,
            titleLine2StrokeSize |-> 8,
            subtitleFontSize |-> 64, subtitleStrokeSize |-> 6,
            ctaFontSize |-> 48, ctaStrokeSize |-> 4, ctaText |-> "",
            examTitle |-> "", examTitleFontSize |-> 0,
            examTitleLine2 |-> "", examTitleLine2FontSize |-> 0,
            examName |-> "", examSubject |-> "", examInfoFontSize |-> 0]
      [] template = "mobi-light" ->
           [titleLine1 |-> "mobi header", titleLine1FontSize |-> 48,
            titleLine1StrokeSize |-> 0,
            titleLine2 |-> "mobi main title", titleLine2FontSize |-> 64,
            titleLine2StrokeSize |-> 0,
            subtitleFontSize |-> 52, subtitleStrokeSize |-> 0,
            ctaFontSize |-> 36, ctaStrokeSize |-> 0, ctaText |-> "mobi meta text",
            examTitle |-> "", examTitleFontSize |-> 0,
            examTitleLine2 |-> "", examTitleLine2FontSize |-> 0,
            examName |-> "", examSubject |-> "", examInfoFontSize |-> 0]
      [] template = "exam-korean" ->
           [titleLine1 |-> "", titleLine1FontSize |-> 0,
            titleLine1StrokeSize |-> 0,
            titleLine2 |-> "", titleLine2FontSize |-> 0,
            titleLine2StrokeSize |-> 0,
            subtitleFontSize |-> 64, subtitleStrokeSize |-> 6,
            ctaFontSize |-> 48, ctaStrokeSize |-> 0, ctaText |-> "exam cta text",
            examTitle |-> "exam title", examTitleFontSize |-> 140,
            examTitleLine2 |-> "exam title 2", examTitleLine2FontSize |-> 140,
            examName |-> "exam name", examSubject |-> "exam subject",
            examInfoFontSize |-> 48]

\* useState<ProjectSettings>({...})
InitialSettings ==
    TEMPLATE_PRESETS("classic-dark")
    @@ [aspectRatio |-> "9:16", template |-> "classic-dark",
        imageX |-> 50, imageY |-> 50, imageScale |-> 100,
        topGuideline |-> 15, bottomGuideline |-> 10, ctaGuideline |-> 85]

\* { ...TEMPLATE_PRESETS[template], ...prev, template }: the spread in the wrong order
MergeTemplatePrevWins(prev, template) ==
    [template |-> template] @@ prev @@ TEMPLATE_PRESETS(template)

\* { ...prev, template, ...TEMPLATE_PRESETS[template] }: a later entry wins
MergeTemplate(prev, template) ==
    TEMPLATE_PRESETS(template) @@ [template |-> template] @@ prev

\* the select of the settings modal fires onChange for another template
handleTemplateChange(template) ==
    /\ template \in Templates \ {settings.template}
    /\ settings' = MergeTemplate(settings, template)
    /\ UNCHANGED <<timelineVars, playVars, canvas, exportVars, textVars>>

\* The NumberInput fields the settings modal shows for a template
NumberFields(template) ==
    CASE template = "classic-dark" ->
           {"titleLine1FontSize", "titleLine1StrokeSize", "titleLine2FontSize",
            "titleLine2StrokeSize", "subtitleFontSize", "subtitleStrokeSize",
            "ctaFontSize", "ctaStrokeSize", "topGuideline", "bottomGuideline",
            "ctaGuideline"}
      [] template = "mobi-light" ->
           {"titleLine1FontSize", "titleLine2FontSize", "ctaFontSize", "subtitleFontSize"}
      [] template = "exam-korean" ->
           {"examTitleFontSize", "examTitleLine2FontSize", "examInfoFontSize",
            "subtitleFontSize", "subtitleStrokeSize"}

\* The StringInput fields the settings modal shows for a template
StringFields(template) ==
    CASE template = "classic-dark" -> {"titleLine1", "titleLine2", "ctaText"}
      [] template = "mobi-light" -> {"titleLine1", "titleLine2", "ctaText"}
      [] template = "exam-korean" -> {"examTitle", "examTitleLine2", "examName", "examSubject"}

UserNumbers == {7}
UserStrings == {"user text"}
AspectRatios == {"1:1", "9:16", "16:9"}

\* setSettings(prev => ({ ...prev, [key]: value })); the field keeps what was typed
handleNumericSettingsChange(key, value) ==
    /\ key \in NumberFields(settings.template)
    /\ settings' = [settings EXCEPT ![key] = value]
    /\ UNCHANGED <<timelineVars, playVars, canvas, exportVars, textVars>>

handleStringSettingsChange(key, value) ==
    /\ key \in StringFields(settings.template)
    /\ settings' = [settings EXCEPT ![key] = value]
    /\ UNCHANGED <<timelineVars, playVars, canvas, exportVars, textVars>>

handleAspectRatioChange(aspectRatio) ==
    /\ aspectRatio \in AspectRatios \ {settings.aspectRatio}
    /\ settings' = [settings EXCEPT !.aspectRatio = aspectRatio]
    /\ UNCHANGED <<timelineVars, playVars, canvas, exportVars, textVars>>

\* an edit in the settings modal counts against MaxSettingEdits; a template change
\* is not counted, the templates are three
SettingEdit == settingEdits < MaxSettingEdits /\ settingEdits' = settingEdits + 1
NoSettingEdit == UNCHANGED settingEdits


\* -------------------------------------------------------------------- export
nonExportVars == <<timelineVars, playVars, canvas, settingsVars, editCount, textVars>>

\* the awaits of handleRender
InFlight == {"arrayBuffer", "decode", "startRendering", "audioFlush", "videoFlush"}
AudioAwaits == {"arrayBuffer", "decode", "startRendering", "audioFlush"}

\* clips.map(c => c.audio).filter(Boolean)
AudioTracksOf(cl) ==
    LET withAudio == SelectSeq(cl, LAMBDA c : c.audio # NoAudio)
    IN  [i \in 1..Len(withAudio) |-> withAudio[i].audio]

\* resampledBuffer.duration of a file, ms: what decodeAudioData and the offline
\* rendering give for it, which need not be the duration probed when it was dropped.
DecodedDuration(audio) ==
    CASE audio.duration = Undefined -> 700
      [] audio.duration = 1250 -> 1240
      [] OTHER -> audio.duration

\* Math.floor in place of Math.ceil
TotalFramesFloor(total) == (total * FPS) \div MsPerSecond

\* Math.ceil(totalDuration * FPS)
TotalFrames(total) == (total * FPS + MsPerSecond - 1) \div MsPerSecond

\* (i * 1_000_000) / FPS as the VideoFrame holds it: timestamp is an integer
\* (long long) attribute, the fraction of the quotient is dropped.
FrameTimestamp(i) == (i * UsPerSecond) \div FPS

\* the clips drawFrame reads when the export calls it: those of the render whose
\* handleRender is running
FrameClipsLive(o) == clips
FrameClips(o) == o.rClips

\* the frames of the loop for (let i = 0; i < totalFrames; i++)
VideoFramesOf(o, n) ==
    [k \in 1..n |-> [clip |-> drawFrame(FrameClips(o), (k - 1) * MsPerSecond, FPS),
                     template |-> o.rTemplate,
                     timestamp |-> FrameTimestamp(k - 1)]]

Cur ==
    [pc |-> pc, isRendering |-> isRendering, renderProgress |-> renderProgress,
     renderMessage |-> renderMessage, generatedVideoUrl |-> generatedVideoUrl,
     alertShown |-> alertShown, rClips |-> rClips, rTemplate |-> rTemplate,
     rTotalDuration |-> rTotalDuration, audioTracks |-> audioTracks,
     trackIndex |-> trackIndex, currentTimestamp |-> currentTimestamp,
     audioChunks |-> audioChunks, videoFrames |-> videoFrames,
     videoEncoderState |-> videoEncoderState, audioEncoderState |-> audioEncoderState,
     lastError |-> lastError]

Apply(o) ==
    /\ pc' = o.pc
    /\ isRendering' = o.isRendering
    /\ renderProgress' = o.renderProgress
    /\ renderMessage' = o.renderMessage
    /\ generatedVideoUrl' = o.generatedVideoUrl
    /\ alertShown' = o.alertShown
    /\ rClips' = o.rClips
    /\ rTemplate' = o.rTemplate
    /\ rTotalDuration' = o.rTotalDuration
    /\ audioTracks' = o.audioTracks
    /\ trackIndex' = o.trackIndex
    /\ currentTimestamp' = o.currentTimestamp
    /\ audioChunks' = o.audioChunks
    /\ videoFrames' = o.videoFrames
    /\ videoEncoderState' = o.videoEncoderState
    /\ audioEncoderState' = o.audioEncoderState
    /\ lastError' = o.lastError
    /\ UNCHANGED nonExportVars

Failed(o, e) == [o EXCEPT !.lastError = IF o.lastError = "none" THEN e ELSE o.lastError]

\* catch (e) { setRenderMessage(`Error: ${e.message}`) } finally { setIsRendering(false) }
Caught(o, e) ==
    [Failed(o, e) EXCEPT !.pc = "returned", !.isRendering = FALSE,
                         !.renderMessage = <<"Error: ", e>>]

\* the early returns before the try block
Alerted(o, text, e) ==
    [Failed(o, e) EXCEPT !.pc = "returned", !.isRendering = FALSE, !.alertShown = text]

\* From setRenderMessage("Rendering video frames...") to await videoEncoder.flush().
\* The loop has no await: it runs to its end, or to the first statement that throws.
\* encode() on an encoder that was closed by an error throws InvalidStateError.
VideoPhase(o, hasVideoFrame) ==
    LET n == TotalFrames(o.rTotalDuration)
        o1 == [o EXCEPT !.renderMessage = <<"Rendering video frames...">>]
    IN  IF n = 0 THEN [o1 EXCEPT !.pc = "videoFlush"]
        ELSE IF ~hasVideoFrame THEN Caught(o1, "VideoFrame is not defined")
        ELSE IF o.videoEncoderState = "closed" THEN Caught(o1, "InvalidStateError")
        ELSE [o1 EXCEPT !.videoFrames = VideoFramesOf(o, n),
                        !.renderProgress = ((n - 1) * 100) \div n,
                        !.pc = "videoFlush"]

\* handleRender from its first line to its first await (or to its return)
StartOutcome(hasVideoEncoder, hasContext, hasAudioEncoder, hasVideoFrame) ==
    LET o0 == [Cur EXCEPT !.isRendering = TRUE, !.generatedVideoUrl = "null",
                          !.renderProgress = 0,
                          !.renderMessage = <<"Initializing renderer...">>,
                          !.alertShown = "", !.lastError = "none"]
        tracks == AudioTracksOf(clips)
        o1 == [o0 EXCEPT !.rClips = clips, !.rTemplate = settings.template,
                         !.rTotalDuration = totalDuration, !.audioTracks = tracks,
                         !.videoEncoderState = "configured", !.audioEncoderState = "none",
                         !.audioChunks = <<>>, !.videoFrames = <<>>,
                         !.trackIndex = 0, !.currentTimestamp = 0]
    IN  IF ~hasVideoEncoder
        THEN Alerted(o0, "Your browser does not support the VideoEncoder API.",
                     "VideoEncoder is undefined")
        ELSE IF ~hasContext
        THEN Alerted(o0, "Could not create canvas context.", "no 2d context")
        ELSE IF tracks # <<>> /\ ~hasAudioEncoder
        THEN Caught(o1, "window.AudioEncoder is not a constructor")
        ELSE IF tracks # <<>>
        THEN [o1 EXCEPT !.audioEncoderState = "configured",
                        !.renderMessage = <<"Encoding audio...">>,
                        !.trackIndex = 1, !.pc = "arrayBuffer"]
        ELSE VideoPhase(o1, hasVideoFrame)

\* a variant of a further call that lacks if (isRendering) return
handleRenderAgainUnguarded ==
    /\ pc \in InFlight
    /\ \E hasVideoEncoder, hasContext, hasAudioEncoder, hasVideoFrame \in BOOLEAN :
           Apply(StartOutcome(hasVideoEncoder, hasContext, hasAudioEncoder, hasVideoFrame))

\* handleRender called while an export is at one of its awaits.  React commits the
\* setIsRendering(true) of the running call before it dispatches another event, so
\* the call belongs to a render whose isRendering is the current one.
handleRenderAgain ==
    /\ pc \in InFlight
    /\ IF isRendering
       THEN UNCHANGED <<nonExportVars, exportVars>>
       ELSE \E hasVideoEncoder, hasContext, hasAudioEncoder, hasVideoFrame \in BOOLEAN :
               Apply(StartOutcome(hasVideoEncoder, hasContext, hasAudioEncoder,
                                  hasVideoFrame))

\* The render button is shown while isRendering is false and enabled while there are
\* clips.  Each API of the environment is looked up at one place of an export.
handleRender ==
    /\ pc = "idle"
    /\ ~isRendering
    /\ Len(clips) > 0
    /\ \E hasVideoEncoder, hasContext, hasAudioEncoder, hasVideoFrame \in BOOLEAN :
           Apply(StartOutcome(hasVideoEncoder, hasContext, hasAudioEncoder, hasVideoFrame))

\* await audioFile.file.arrayBuffer() resolves; decodeAudioData is called
ResumeArrayBuffer ==
    /\ pc = "arrayBuffer"
    /\ Apply([Cur EXCEPT !.pc = "decode"])

\* await audioContext.decodeAudioData(arrayBuffer) resolves or rejects
ResumeDecode(decoded) ==
    /\ pc = "decode"
    /\ Apply(IF decoded THEN [Cur EXCEPT !.pc = "startRendering"]
             ELSE Caught(Cur, "Unable to decode audio data"))

\* ResumeRendering with the running timestamp advanced by the duration the clip
\* declares (audio.duration || DEFAULT_CLIP_DURATION) in place of the decoded one
ResumeRenderingDeclared(hasAudioData) ==
    /\ pc = "startRendering"
    /\ trackIndex > 1 => hasAudioData
    /\ LET track == audioTracks[trackIndex]
           o1 == [Cur EXCEPT
                    !.audioChunks = Append(@, [audio |-> track.id,
                                               timestamp |-> currentTimestamp]),
                    !.currentTimestamp = @ + ClipDuration([audio |-> track]) * (UsPerSecond \div MsPerSecond)]
       IN  Apply(IF ~hasAudioData THEN Caught(Cur, "window.AudioData is not a constructor")
                 ELSE IF audioEncoderState = "closed" THEN Caught(Cur, "InvalidStateError")
                 ELSE IF trackIndex < Len(audioTracks)
                 THEN [o1 EXCEPT !.trackIndex = @ + 1, !.pc = "arrayBuffer"]
                 ELSE [o1 EXCEPT !.pc = "audioFlush"])

\* await offlineContext.startRendering() resolves: AudioData, encode, next track
ResumeRendering(hasAudioData) ==
    /\ pc = "startRendering"
    /\ trackIndex > 1 => hasAudioData
    /\ LET track == audioTracks[trackIndex]
           o1 == [Cur EXCEPT
                    !.audioChunks = Append(@, [audio |-> track.id,
                                               timestamp |-> currentTimestamp]),
                    !.currentTimestamp = @ + DecodedDuration(track) * (UsPerSecond \div MsPerSecond)]
       IN  Apply(IF ~hasAudioData THEN Caught(Cur, "window.AudioData is not a constructor")
                 ELSE IF audioEncoderState = "closed" THEN Caught(Cur, "InvalidStateError")
                 ELSE IF trackIndex < Len(audioTracks)
                 THEN [o1 EXCEPT !.trackIndex = @ + 1, !.pc = "arrayBuffer"]
                 ELSE [o1 EXCEPT !.pc = "audioFlush"])

\* await audioEncoder.flush() settles; on success the video pass runs to its await
ResumeAudioFlush(hasVideoFrame) ==
    /\ pc = "audioFlush"
    /\ Apply(IF audioEncoderState = "closed" THEN Caught(Cur, "EncodingError")
             ELSE VideoPhase(Cur, hasVideoFrame))

\* a variant that finalizes as soon as either encoder's flush settles
ResumeVideoFlushEarly ==
    /\ pc \in {"audioFlush", "videoFlush"}
    /\ Apply(IF videoEncoderState = "closed" THEN Caught(Cur, "EncodingError")
             ELSE [Cur EXCEPT !.generatedVideoUrl = "blob:video/mp4",
                              !.renderMessage = <<"Done!">>,
                              !.renderProgress = 100,
                              !.isRendering = FALSE,
                              !.pc = "returned"])
\* await videoEncoder.flush() settles; on success finalize, blob, url, 'Done!', 100
ResumeVideoFlush ==
    /\ pc = "videoFlush"
    /\ Apply(IF videoEncoderState = "closed" THEN Caught(Cur, "EncodingError")
             ELSE [Cur EXCEPT !.generatedVideoUrl = "blob:video/mp4",
                              !.renderMessage = <<"Done!">>,
                              !.renderProgress = 100,
                              !.isRendering = FALSE,
                              !.pc = "returned"])

\* The error callbacks of the encoders only log.  The encoder that reports an error
\* is closed: its pending flush rejects and a later encode() throws.
VideoEncoderError ==
    /\ pc \in InFlight
    /\ videoEncoderState = "configured"
    /\ Apply([Failed(Cur, "VideoEncoder error") EXCEPT !.videoEncoderState = "closed"])

AudioEncoderError ==
    /\ pc \in AudioAwaits
    /\ audioEncoderState = "configured"
    /\ Apply([Failed(Cur, "AudioEncoder error") EXCEPT !.audioEncoderState = "closed"])

\* what the render controls show of renderMessage: the span exists only while
\* isRendering is true
ShownMessage == IF isRendering THEN renderMessage ELSE <<>>

\* a timeline or settings edit made while the export is suspended at an await
EditInFlight ==
    /\ pc \in InFlight
    /\ editCount < MaxEdits
    /\ editCount' = editCount + 1


\* ---------------------------------------------------------------- styled text
\* A text is a sequence of characters, each a string of length one.
OpenPrefix == <<"[", "b", "g", "_", "o", "p", "a", "c", "i", "t", "y", "=">>
TagName == <<"b", "g", "_", "o", "p", "a", "c", "i", "t", "y">>
CloseTag == <<"[", "/", "b", "g", "_", "o", "p", "a", "c", "i", "t", "y", "]">>
ColorOpen == <<"[", "c", "o", "l", "o", "r", "=">>
ColorClose == <<"[", "/", "c", "o", "l", "o", "r", "]">>
White == <<"w", "h", "i", "t", "e">>
SubtitleDefaultOpacity == 70

Digits == {"0", "1", "2", "3", "4", "5", "6", "7", "8", "9"}
DigitValue(c) == CHOOSE v \in 0..9 : ToString(v) = c
LineTerminators == {"\n"}
WhiteSpace == {" ", "\n"}

\* the case folding of the i flag
LowerCaseOf == [A |-> "a", B |-> "b", C |-> "c", D |-> "d", E |-> "e", F |-> "f", G |-> "g", H |-> "h", I |-> "i", J |-> "j", K |-> "k", L |-> "l", M |-> "m", N |-> "n", O |-> "o", P |-> "p", Q |-> "q", R |-> "r", S |-> "s", T |-> "t", U |-> "u", V |-> "v", W |-> "w", X |-> "x", Y |-> "y", Z |-> "z"]
LowerCase(c) == IF c \in DOMAIN LowerCaseOf THEN LowerCaseOf[c] ELSE c

Min(S) == CHOOSE x \in S : \A y \in S : x <= y

\* the literal lit stands in s at position i
LiteralAt(s, i, lit, ignoreCase) ==
    /\ i >= 1
    /\ i + Len(lit) - 1 <= Len(s)
    /\ \A k \in 1..Len(lit) :
          IF ignoreCase THEN LowerCase(s[i + k - 1]) = LowerCase(lit[k])
          ELSE s[i + k - 1] = lit[k]

\* \d+ read from position i: the position after the longest run of digits
RECURSIVE DigitsEnd(_, _)
DigitsEnd(s, i) == IF i <= Len(s) /\ s[i] \in Digits THEN DigitsEnd(s, i + 1) ELSE i

\* /\[bg_opacity=(\d+)\]/i tried at position i: the position of its ], 0 when it fails
OpenTagEnd(s, i) ==
    LET d == i + Len(OpenPrefix)
        e == DigitsEnd(s, d)
    IN  IF LiteralAt(s, i, OpenPrefix, TRUE) /\ e > d /\ e <= Len(s) /\ s[e] = "]"
        THEN e ELSE 0

\* the positions from which /\[\/bg_opacity\]/i matches, at or after from
CloseTagStarts(s, from) == { k \in from..Len(s) : LiteralAt(s, k, CloseTag, TRUE) }

\* text.match(/\[bg_opacity=(\d+)\]([\s\S]*?)\[\/bg_opacity\]/i): the leftmost
\* position with a match, the lazy group ending at the first closing tag after it
bgOpacityRegexMatch(s) ==
    LET starts == { i \in 1..Len(s) :
                      /\ OpenTagEnd(s, i) # 0
                      /\ CloseTagStarts(s, OpenTagEnd(s, i) + 1) # {} }
    IN  IF starts = {} THEN [matched |-> FALSE]
        ELSE LET i == Min(starts)
                 e == OpenTagEnd(s, i)
                 k == Min(CloseTagStarts(s, e + 1))
             IN  [matched |-> TRUE,
                  group1 |-> SubSeq(s, i + Len(OpenPrefix), e - 1),
                  group2 |-> SubSeq(s, e + 1, k - 1)]

\* /\[\/?bg_opacity(?:=\d+)?\]/i tried at position i: the position after the match,
\* 0 when it fails
StrayTagEnd(s, i) ==
    IF ~(i <= Len(s) /\ s[i] = "[") THEN 0
    ELSE LET p == IF i + 1 <= Len(s) /\ s[i + 1] = "/" THEN i + 2 ELSE i + 1
             q == p + Len(TagName)
             e == DigitsEnd(s, q + 1)
         IN  IF ~LiteralAt(s, p, TagName, TRUE) THEN 0
             ELSE IF q <= Len(s) /\ s[q] = "]" THEN q + 1
             ELSE IF q <= Len(s) /\ s[q] = "=" /\ e > q + 1 /\ e <= Len(s) /\ s[e] = "]"
             THEN e + 1
             ELSE 0

\* text.replace(/\[\/?bg_opacity(?:=\d+)?\]/gi, ''): one pass from left to right,
\* the search resumes after each match
RECURSIVE ReplaceStrayTags(_, _)
ReplaceStrayTags(s, i) ==
    IF i > Len(s) THEN <<>>
    ELSE IF StrayTagEnd(s, i) # 0 THEN ReplaceStrayTags(s, StrayTagEnd(s, i))
    ELSE <<s[i]>> \o ReplaceStrayTags(s, i + 1)

\* parseInt(digits, 10) of a run of digits
RECURSIVE ParseIntFrom(_, _)
ParseIntFrom(digits, acc) ==
    IF digits = <<>> THEN acc
    ELSE ParseIntFrom(Tail(digits), acc * 10 + DigitValue(Head(digits)))
ParseInt(digits) == ParseIntFrom(digits, 0)

\* parseTextAndBgOpacity(text, defaultOpacity) of the fullscreen preview; an undefined
\* text is the empty text (text || '')
parseTextAndBgOpacity(text, default) ==
    LET rawText == text
        match == bgOpacityRegexMatch(rawText)
        bgOpacity == IF match.matched THEN ParseInt(match.group1) ELSE default
        cleanText == IF match.matched THEN match.group2 ELSE ReplaceStrayTags(rawText, 1)
    IN  [cleanText |-> cleanText,
         bgOpacity |-> IF bgOpacity < 0 \/ bgOpacity > 100 THEN default ELSE bgOpacity]

NoNewline(s, from, to) == \A k \in from..to : s[k] \notin LineTerminators

\* /\[color=(.*?)\](.*?)\[\/color\]/ tried at position i.  Both groups are lazy and
\* . matches no line terminator: the first group ends at the first ] from which the
\* rest can match, the second at the first [/color] after it.
colorRegexMatchAt(s, i) ==
    IF ~LiteralAt(s, i, ColorOpen, FALSE) THEN [matched |-> FALSE]
    ELSE LET c == i + Len(ColorOpen)
             closes(j) == { k \in (j + 1)..Len(s) : LiteralAt(s, k, ColorClose, FALSE) }
             ends == { j \in c..Len(s) :
                         /\ s[j] = "]"
                         /\ NoNewline(s, c, j - 1)
                         /\ closes(j) # {}
                         /\ NoNewline(s, j + 1, Min(closes(j)) - 1) }
         IN  IF ends = {} THEN [matched |-> FALSE]
             ELSE LET j == Min(ends)
                      k == Min(closes(j))
                  IN  [matched |-> TRUE, index |-> i,
                       color |-> SubSeq(s, c, j - 1), text |-> SubSeq(s, j + 1, k - 1),
                       lastIndex |-> k + Len(ColorClose)]

\* the loop while ((match = regex.exec(text)) !== null) and the push after it;
\* lastIndex is the position of the first character not yet consumed
RECURSIVE ColorParts(_, _)
ColorParts(s, lastIndex) ==
    LET starts == { i \in lastIndex..Len(s) : colorRegexMatchAt(s, i).matched }
    IN  IF starts = {}
        THEN IF lastIndex <= Len(s)
             THEN << [text |-> SubSeq(s, lastIndex, Len(s)), color |-> White] >>
             ELSE <<>>
        ELSE LET match == colorRegexMatchAt(s, Min(starts))
             IN  (IF match.index > lastIndex
                  THEN << [text |-> SubSeq(s, lastIndex, match.index - 1), color |-> White] >>
                  ELSE <<>>)
                 \o << [text |-> match.text, color |-> match.color] >>
                 \o ColorParts(s, match.lastIndex)

\* parseColoredText(text)
parseColoredText(text) == IF text = <<>> THEN <<>> ELSE ColorParts(text, 1)

\* parseColoredText of PreviewPlayer.tsx, the same statements
previewParseColoredText(text) == IF text = <<>> THEN <<>> ELSE ColorParts(text, 1)

\* text.split('\n')
RECURSIVE SplitLines(_, _)
SplitLines(s, line) ==
    IF s = <<>> THEN <<line>>
    ELSE IF Head(s) = "\n" THEN <<line>> \o SplitLines(Tail(s), <<>>)
    ELSE SplitLines(Tail(s), Append(line, Head(s)))

\* line.trim()
RECURSIVE Trim(_)
Trim(s) ==
    IF s = <<>> THEN s
    ELSE IF Head(s) \in WhiteSpace THEN Trim(Tail(s))
    ELSE IF s[Len(s)] \in WhiteSpace THEN Trim(SubSeq(s, 1, Len(s) - 1))
    ELSE s

PartTexts(parts) == [i \in 1..Len(parts) |-> parts[i].text]

\* drawStyledTextWithBackground(ctx, text, x, y, defaultOpacity, ...): nothing when
\* the text is empty; else the text and the opacity it arrives at and, line by
\* line, the texts of the parts it fills
drawStyledTextWithBackground(text, default) ==
    IF text = <<>> THEN [drawn |-> FALSE, lines |-> <<>>]
    ELSE LET bgMatch == bgOpacityRegexMatch(text)
             backgroundOpacity == IF bgMatch.matched THEN ParseInt(bgMatch.group1)
                                  ELSE default
             processedText == IF bgMatch.matched THEN bgMatch.group2
                              ELSE ReplaceStrayTags(text, 1)
             lines == SplitLines(processedText, <<>>)
         IN  [drawn |-> TRUE,
              processedText |-> processedText,
              backgroundOpacity |-> IF backgroundOpacity < 0 \/ backgroundOpacity > 100
                                    THEN default ELSE backgroundOpacity,
              lines |-> [i \in 1..Len(lines) |-> PartTexts(parseColoredText(lines[i]))]]

\* drawMultilineText(ctx, text, ...): each line is filled trimmed
drawMultilineText(text) ==
    LET lines == SplitLines(text, <<>>)
    IN  [i \in 1..Len(lines) |-> << Trim(lines[i]) >>]

\* the subtitle part of drawMediaFrame(ctx, clip), by template
drawSubtitle(template, text) ==
    IF template = "mobi-light" THEN drawMultilineText(text)
    ELSE drawStyledTextWithBackground(text, SubtitleDefaultOpacity).lines

\* the subtitle of the fullscreen preview, by template: the texts of its elements
previewSubtitleOf(template, text) ==
    IF template = "mobi-light" THEN << text >>
    ELSE IF text = <<>> THEN <<>>
    ELSE PartTexts(previewParseColoredText(
             parseTextAndBgOpacity(text, SubtitleDefaultOpacity).cleanText))

NotRun == [run |-> FALSE]

\* imageElements.current: keys are the names of the dropped files (handleFileDrop);
\* an HTMLImageElement is its complete flag and its natural size
ElementKeys == {"photo.png", "id_201"}
NoElement == [complete |-> FALSE, naturalWidth |-> -1, naturalHeight |-> -1]
Loading == [complete |-> FALSE, naturalWidth |-> 0, naturalHeight |-> 0]
LoadingSized == [complete |-> FALSE, naturalWidth |-> 640, naturalHeight |-> 480]
Loaded == [complete |-> TRUE, naturalWidth |-> 640, naturalHeight |-> 480]
Broken == [complete |-> TRUE, naturalWidth |-> 0, naturalHeight |-> 0]
ZeroHeight == [complete |-> TRUE, naturalWidth |-> 640, naturalHeight |-> 0]
NoElements == [k \in ElementKeys |-> NoElement]

\* imageElements.current[key]
ElementOf(elements, key) == IF key \in DOMAIN elements THEN elements[key] ELSE NoElement

\* drawUserImage without its guard on the element: drawImage is called with whatever
\* the lookup gave, and throws for undefined and for a broken image
drawUserImageUnguarded(clip, elements) ==
    IF clip.image # NoImage /\ clip.backgroundType = "image"
    THEN LET img == ElementOf(elements, clip.image.id)
         IN  IF img = NoElement THEN "TypeError"
             ELSE IF img = Broken THEN "InvalidStateError"
             ELSE IF img.complete /\ img.naturalWidth > 0 /\ img.naturalHeight > 0 THEN "drawn"
             ELSE "skipped"
    ELSE "skipped"

\* drawUserImage of drawMediaFrame: "drawn" when ctx.drawImage is reached
drawUserImage(clip, elements) ==
    IF clip.image # NoImage /\ clip.backgroundType = "image"
    THEN LET img == ElementOf(elements, clip.image.id)
         IN  IF img # NoElement /\ img.complete /\ img.naturalWidth > 0 /\ img.naturalHeight > 0
             THEN "drawn"
             ELSE "skipped"
    ELSE "skipped"

\* RENDER_DIMENSIONS[settings.aspectRatio], px
RENDER_DIMENSIONS(aspectRatio) ==
    CASE aspectRatio = "1:1" -> [width |-> 1080, height |-> 1080]
      [] aspectRatio = "9:16" -> [width |-> 1080, height |-> 1920]
      [] aspectRatio = "16:9" -> [width |-> 1920, height |-> 1080]

\* The geometry of drawUserImage is computed in real numbers; lengths are counted
\* here in units of 1/200 px, in which every product and half the code takes is
\* whole.  The one quotient that is not, the downscaled width, is kept as n / d.
Units(px) == 200 * px

\* text ? text.split('\n').length : 0, for the texts a setting of the model holds
TwelveLines == "a title of twelve lines"
LineCount(text) == IF text = "" THEN 0 ELSE IF text = TwelveLines THEN 12 ELSE 1

\* minY and maxY of drawUserImage: the band the template leaves to the image
imageBand(st) ==
    LET W == RENDER_DIMENSIONS(st.aspectRatio).width
        H == RENDER_DIMENSIONS(st.aspectRatio).height
        Percent(n) == 2 * H * n                  \* RENDER_HEIGHT * (n / 100)
        LineHeight(fontSize) == 240 * fontSize   \* fontSize * 1.2
    IN  CASE st.template = "classic-dark" ->
               LET totalTitleHeight ==
                       LineCount(st.titleLine1) * LineHeight(st.titleLine1FontSize)
                       + LineCount(st.titleLine2) * LineHeight(st.titleLine2FontSize)
                   subtitleY == Percent(100 - st.bottomGuideline)
                   ctaY == Percent(st.ctaGuideline)
               IN  [minY |-> Percent(st.topGuideline) + totalTitleHeight \div 2,
                    maxY |-> IF subtitleY < ctaY THEN subtitleY ELSE ctaY]
          [] st.template = "mobi-light" ->
               [minY |-> Percent(8) + Percent(6) + Percent(6) + Percent(4),
                maxY |-> Percent(100 - st.bottomGuideline)]
          [] st.template = "exam-korean" ->
               LET paperPadding == 10 * W        \* RENDER_WIDTH * 0.05
                   currentY ==
                       paperPadding + Units(60)
                       + (IF st.examTitle # "" THEN LineHeight(st.examTitleFontSize) ELSE 0)
                       + (IF st.examTitleLine2 # ""
                          THEN LineHeight(st.examTitleLine2FontSize) ELSE 0)
               IN  [minY |-> currentY + Units(25),
                    maxY |-> paperPadding + (Units(H) - 2 * paperPadding) - Units(80)]

\* the destination rectangle drawUserImage passes to ctx.drawImage
drawImageRect(img, st) ==
    LET W == RENDER_DIMENSIONS(st.aspectRatio).width
        band == imageBand(st)
        availableHeight == band.maxY - band.minY
        scaledWidth == 2 * img.naturalWidth * st.imageScale     \* img.width * scale
        scaledHeight == 2 * img.naturalHeight * st.imageScale   \* img.height * scale
        tooTall == scaledHeight > availableHeight
        destHeight == IF tooTall THEN availableHeight ELSE scaledHeight
    IN  [destX |-> [n |-> Units(W) - scaledWidth, d |-> 2],
         destY |-> IF destHeight < availableHeight
                   THEN band.minY + (availableHeight - destHeight) \div 2
                   ELSE band.minY,
         destWidth |-> IF tooTall
                       THEN [n |-> img.naturalWidth * availableHeight, d |-> img.naturalHeight]
                       ELSE [n |-> scaledWidth, d |-> 1],
         destHeight |-> destHeight]
NoRect == [destX |-> [n |-> 0, d |-> 1], destY |-> 0, destWidth |-> [n |-> 0, d |-> 1],
           destHeight |-> 0]

Layer(name, isPainted) == IF isPainted THEN << name >> ELSE <<>>

\* the layers drawMediaFrame paints after the image, by template, in order
LayersAfterImage(st, clip) ==
    CASE st.template = "mobi-light" -> <<"chrome", "titles", "cta", "subtitle">>
      [] st.template = "exam-korean" ->
            Layer("titles", st.examTitle # "" \/ st.examTitleLine2 # "")
            \o <<"chrome">>
            \o Layer("subtitle", clip.subtitle # <<>>)
            \o Layer("cta", st.ctaText # "")
      [] OTHER ->
            Layer("titles", st.titleLine1 # "" \/ st.titleLine2 # "")
            \o Layer("subtitle", clip.subtitle # <<>>)
            \o Layer("cta", st.ctaText # "")

\* drawMediaFrame(ctx, clip): background, image, then the rest; a statement that
\* throws ends the call
paintFrame(st, clip, elements) ==
    LET image == drawUserImage(clip, elements)
    IN  [run |-> TRUE,
         img |-> IF clip.image # NoImage THEN ElementOf(elements, clip.image.id) ELSE NoElement,
         threw |-> IF image \in {"drawn", "skipped"} THEN "none" ELSE image,
         rect |-> IF image = "drawn"
                  THEN drawImageRect(ElementOf(elements, clip.image.id), st)
                  ELSE NoRect,
         layers |-> IF image \in {"drawn", "skipped"}
                    THEN <<"background">> \o Layer("image", image = "drawn")
                         \o LayersAfterImage(st, clip)
                    ELSE <<"background">>]

TextNotRendered ==
    /\ parsedCanvas = NotRun
    /\ parsedPreview = NotRun
    /\ colorRuns = NotRun
    /\ canvasSubtitle = NotRun
    /\ previewSubtitle = NotRun
    /\ painted = NotRun

nonTextVars == <<timelineVars, playVars, canvas, settingsVars, editCount, exportVars>>

\* the two opacity parsers and the colour parser applied to the text
ParseText ==
    /\ parsedCanvas = NotRun
    /\ parsedCanvas' = [run |-> TRUE,
                        result |-> drawStyledTextWithBackground(subtitle, defaultOpacity)]
    /\ parsedPreview' = [run |-> TRUE,
                         result |-> parseTextAndBgOpacity(subtitle, defaultOpacity)]
    /\ colorRuns' = [run |-> TRUE, result |-> parseColoredText(subtitle)]
    /\ UNCHANGED <<subtitle, defaultOpacity, canvasSubtitle, previewSubtitle, imageElements,
                   painted, nonTextVars>>

\* the canvas is painted for the clip on screen: drawMediaFrame(ctx, clip)
drawMediaFrame ==
    /\ canvasSubtitle = NotRun
    /\ canvasSubtitle' = [run |-> TRUE, lines |-> drawSubtitle(settings.template, subtitle)]
    /\ painted' = IF clips = <<>> THEN painted
                  ELSE paintFrame(settings, clips[1], imageElements)
    /\ UNCHANGED <<subtitle, defaultOpacity, parsedCanvas, parsedPreview, colorRuns,
                   previewSubtitle, imageElements, nonTextVars>>

\* the fullscreen preview is rendered for the clip: PreviewPlayer
PreviewPlayer ==
    /\ previewSubtitle = NotRun
    /\ previewSubtitle' = [run |-> TRUE,
                           shown |-> previewSubtitleOf(settings.template, subtitle)]
    /\ UNCHANGED <<subtitle, defaultOpacity, parsedCanvas, parsedPreview, colorRuns,
                   canvasSubtitle, imageElements, painted, nonTextVars>>

\* handleFileDrop for an image file: new Image(), src, stored under file.name
handleFileDrop(name) ==
    /\ imageElements[name] = NoElement
    /\ imageElements' = [imageElements EXCEPT ![name] = Loading]
    /\ UNCHANGED <<subtitle, defaultOpacity, parsedCanvas, parsedPreview, colorRuns,
                   canvasSubtitle, previewSubtitle, painted, nonTextVars>>

\* the browser makes progress loading the image of an element
ImageLoadProgress(name, element) ==
    /\ \/ imageElements[name] = Loading /\ element \in {LoadingSized, Loaded, Broken, ZeroHeight}
       \/ imageElements[name] = LoadingSized /\ element \in {Loaded, Broken}
    /\ imageElements' = [imageElements EXCEPT ![name] = element]
    /\ UNCHANGED <<subtitle, defaultOpacity, parsedCanvas, parsedPreview, colorRuns,
                   canvasSubtitle, previewSubtitle, painted, nonTextVars>>

\* pieces of text a subtitle is put together from
WrapperOpen40 == <<"[", "b", "g", "_", "o", "p", "a", "c", "i", "t", "y", "=", "4", "0", "]">>
WrapperOpen150 == <<"[", "b", "g", "_", "o", "p", "a", "c", "i", "t", "y", "=", "1", "5", "0", "]">>
WrapperOpenAbc == <<"[", "b", "g", "_", "o", "p", "a", "c", "i", "t", "y", "=", "a", "b", "c", "]">>
WrapperOpenBare == <<"[", "b", "g", "_", "o", "p", "a", "c", "i", "t", "y", "]">>
WrapperClose == <<"[", "/", "b", "g", "_", "o", "p", "a", "c", "i", "t", "y", "]">>
WrapperCloseUpper == <<"[", "/", "B", "G", "_", "O", "P", "A", "C", "I", "T", "Y", "]">>
WrapperHead == <<"[", "b", "g", "_", "o", "p">>
WrapperTail == <<"a", "c", "i", "t", "y", "]">>
ColorSpanStart == <<"[", "c", "o", "l", "o", "r", "=", "r", "e", "d", "]", "h", "i">>
ColorSpanEnd == <<"[", "/", "c", "o", "l", "o", "r", "]">>
ColorStray == <<"[", "c", "o", "l", "o", "r", "=">>
Plain == <<" ", "t", "h", "e", "r", "e">>
Newline == <<"\n">>
Pieces == {WrapperOpen40, WrapperOpen150, WrapperOpenAbc, WrapperOpenBare, WrapperClose, WrapperCloseUpper, WrapperHead, WrapperTail, ColorSpanStart, ColorSpanEnd, ColorStray, Plain, Newline}

RECURSIVE TextsOfPieces(_)
TextsOfPieces(n) ==
    IF n = 0 THEN { <<>> }
    ELSE { t \o piece : t \in TextsOfPieces(n - 1), piece \in Pieces }

Texts == UNION { TextsOfPieces(n) : n \in 0..MaxPieces }
Defaults == {0, SubtitleDefaultOpacity}

\* ------------------------------------------------- the backend over Redis
PollTimeout == 60000                  \* const pollTimeout, ms
PollInterval == 1000                  \* the setTimeout between two polls, ms

pageVars == <<nonExportVars, exportVars, preview>>

\* a variant that takes the default whatever the field holds
OrTextDefault(obj, field, default) == default
\* a || b where a is a string field of obj that may be absent
OrText(obj, field, default) ==
    IF field \in DOMAIN obj /\ obj[field] # "" THEN obj[field] ELSE default
\* a || b where a is an object or array field of obj that may be absent
OrObject(obj, field, default) ==
    IF field \in DOMAIN obj THEN obj[field] ELSE default

EmptyScript == [hook |-> "", immersion |-> "", body |-> "", cta |-> ""]
FixedImages ==
    << "/uploads/images/1756187304776.png", "/uploads/images/1756187305104.png",
       "/uploads/images/1756187305373.png", "/uploads/images/1756187489928.png" >>

\* the Short POST /shorts stores (status and metadata, which no route reads, are left out)
newShort(projectId, body, now) ==
    [ id |-> now,
      projectId |-> projectId,
      title |-> OrText(body, "title", "Untitled Short"),
      description |-> OrText(body, "description", ""),
      script |-> OrObject(body, "script", EmptyScript),
      images |-> FixedImages,
      titleLine1 |-> OrText(body, "titleLine1", ""),
      titleLine2 |-> OrText(body, "titleLine2", ""),
      youtubeUrl |-> OrText(body, "youtubeUrl", "") ]

\* { ...short, ...body, id, projectId }
updatedShort(short, body, projectId, shortId) ==
    [ f \in DOMAIN short \cup DOMAIN body |->
        IF f = "id" THEN shortId
        ELSE IF f = "projectId" THEN projectId
        ELSE IF f \in DOMAIN body THEN body[f] ELSE short[f] ]

\* shorts.findIndex(s => s.id === shortId), counted from 1; 0 when there is none
findIndex(shorts, shortId) ==
    IF \E i \in 1..Len(shorts) : shorts[i].id = shortId
    THEN CHOOSE i \in 1..Len(shorts) :
            /\ shorts[i].id = shortId
            /\ \A j \in 1..(i - 1) : shorts[j].id # shortId
    ELSE 0

PlaceholderImage == "/uploads/images/placeholder.png"
imageUrl(short, i) ==
    IF "images" \in DOMAIN short /\ i <= Len(short.images) /\ short.images[i] # ""
    THEN short.images[i] ELSE PlaceholderImage

\* the reportData getShortReportData builds for a short it found
reportData(short) ==
    [ title |-> OrText(short, "title", "Untitled Short"),
      description |-> OrText(short, "description",
          "A comprehensive breakdown and performance summary of your short video."),
      breakdown |->
        [ hook |-> [ description |-> OrText(short.script, "hook", "The initial seconds of your short"),
                     imageUrl |-> imageUrl(short, 1) ],
          immersion |-> [ description |-> OrText(short.script, "immersion", "The core content of your short"),
                          imageUrl |-> imageUrl(short, 2) ],
          body |-> [ description |-> OrText(short.script, "body", "The main part of your short"),
                     imageUrl |-> imageUrl(short, 3) ],
          cta |-> [ description |-> OrText(short.script, "cta", "The call to action"),
                    imageUrl |-> imageUrl(short, 4) ] ],
      performance |->
        [ views |-> OrText(short, "youtubeViewCount", "1,234,567"),
          likes |-> OrText(short, "youtubeLikeCount", "78,910"),
          comments |-> OrText(short, "youtubeCommentCount", "1,234") ] ]

\* getShortReportData: the error it throws, "" when it returns
getShortReportError(projectId, shortId) ==
    IF projectId \notin DOMAIN projects THEN "Project not found."
    ELSE IF findIndex(projects[projectId], shortId) = 0 THEN "Short not found."
    ELSE ""

\* title.replace(/[^a-z0-9]/gi, '_') for the titles a short of the model has
SafeTitle(title) ==
    CASE title = "E2E Test Short" -> "E2E_Test_Short"
      [] title = "Untitled Short" -> "Untitled_Short"
      [] OTHER -> title

\* a response body that is a text
Text(text) == [text |-> text]
NoHeaders == [contentType |-> "", disposition |-> <<>>]
PdfHeaders(title) ==
    [contentType |-> "application/pdf",
     disposition |-> <<"attachment; filename=", SafeTitle(title), "_report.pdf">>]
Respond(route, status, headers, body) ==
    httpResponse' = [route |-> route, status |-> status, headers |-> headers, body |-> body]

\* GET /api/projects/:projectId/shorts
GetShorts(projectId) ==
    /\ IF projectId \notin DOMAIN projects
       THEN Respond("GET shorts", 404, NoHeaders, Text("Project not found."))
       ELSE Respond("GET shorts", 200, NoHeaders, [shorts |-> projects[projectId]])
    /\ UNCHANGED <<projects, serverClock, puppeteerTasks, puppeteerResponses, pdfRequest,
                   pushedTasks, pageVars>>

\* POST /api/projects/:projectId/shorts
PostShort(projectId, body) ==
    /\ IF projectId \notin DOMAIN projects
       THEN /\ Respond("POST shorts", 404, NoHeaders, Text("Project not found."))
            /\ UNCHANGED projects
       ELSE /\ Len(projects[projectId]) < MaxShorts
            /\ projects' = [projects EXCEPT ![projectId] =
                               Append(@, newShort(projectId, body, serverClock))]
            /\ Respond("POST shorts", 201, NoHeaders, newShort(projectId, body, serverClock))
    /\ UNCHANGED <<serverClock, puppeteerTasks, puppeteerResponses, pdfRequest,
                   pushedTasks, pageVars>>

\* PUT /api/projects/:projectId/shorts/:shortId
PutShort(projectId, shortId, body) ==
    /\ IF projectId \notin DOMAIN projects
       THEN /\ Respond("PUT short", 404, NoHeaders, Text("Project not found."))
            /\ UNCHANGED projects
       ELSE LET shortIndex == findIndex(projects[projectId], shortId)
            IN  IF shortIndex = 0
                THEN /\ Respond("PUT short", 404, NoHeaders, Text("Short not found."))
                     /\ UNCHANGED projects
                ELSE LET updated == updatedShort(projects[projectId][shortIndex], body,
                                                 projectId, shortId)
                     IN  /\ projects' = [projects EXCEPT ![projectId][shortIndex] = updated]
                         /\ Respond("PUT short", 200, NoHeaders, updated)
    /\ UNCHANGED <<serverClock, puppeteerTasks, puppeteerResponses, pdfRequest,
                   pushedTasks, pageVars>>

\* DELETE /api/projects/:projectId/shorts/:shortId
DeleteShort(projectId, shortId) ==
    /\ IF projectId \notin DOMAIN projects
       THEN /\ Respond("DELETE short", 404, NoHeaders, Text("Project not found."))
            /\ UNCHANGED projects
       ELSE LET kept == SelectSeq(projects[projectId], LAMBDA s : s.id # shortId)
            IN  IF Len(kept) = Len(projects[projectId])
                THEN /\ Respond("DELETE short", 404, NoHeaders, Text("Short not found."))
                     /\ UNCHANGED projects
                ELSE /\ projects' = [projects EXCEPT ![projectId] = kept]
                     /\ Respond("DELETE short", 204, NoHeaders, Text(""))
    /\ UNCHANGED <<serverClock, puppeteerTasks, puppeteerResponses, pdfRequest,
                   pushedTasks, pageVars>>

\* GET /api/projects/:projectId/shorts/:shortId: no route of the server matches this
\* method and path, express.static finds no file, and Express answers 404.
GetShort(projectId, shortId) ==
    /\ Respond("GET short", 404, NoHeaders, Text("Cannot GET"))
    /\ UNCHANGED <<projects, serverClock, puppeteerTasks, puppeteerResponses, pdfRequest,
                   pushedTasks, pageVars>>

\* GET /api/projects/:projectId/shorts/:shortId/report
GetReport(projectId, shortId) ==
    /\ IF getShortReportError(projectId, shortId) # ""
       THEN Respond("GET report", 500, NoHeaders, Text("Failed to retrieve short report."))
       ELSE Respond("GET report", 200, NoHeaders,
                    reportData(projects[projectId][findIndex(projects[projectId], shortId)]))
    /\ UNCHANGED <<projects, serverClock, puppeteerTasks, puppeteerResponses, pdfRequest,
                   pushedTasks, pageVars>>

\* where the handler of a report/pdf request stands
NoPdfRequest ==
    [at |-> "idle", projectId |-> "", shortId |-> 0, taskId |-> 0, title |-> "",
     pollStartTime |-> 0, wakeAt |-> 0, status |-> 0]
PdfResponded(status) == [pdfRequest EXCEPT !.at = "responded", !.status = status]

\* GET /api/projects/:projectId/shorts/:shortId/report/pdf, up to the first poll.
\* The task id is pdf-<Date.now()>-<Math.random() in base 36>; two draws of
\* Math.random() are taken to differ, so the number of the draw stands for it.
GetReportPdf(projectId, shortId) ==
    /\ pdfRequest.at # "polling"
    /\ IF getShortReportError(projectId, shortId) # ""
       THEN /\ Respond("GET report/pdf", 500, NoHeaders, Text("Failed to generate PDF report."))
            /\ pdfRequest' = [NoPdfRequest EXCEPT !.at = "responded", !.status = 500,
                                                  !.projectId = projectId, !.shortId = shortId]
            /\ UNCHANGED <<puppeteerTasks, pushedTasks>>
       ELSE LET taskId == Len(pushedTasks) + 1
                task == [type |-> "generate_pdf_from_html", task_id |-> taskId]
                short == projects[projectId][findIndex(projects[projectId], shortId)]
            IN  /\ Len(pushedTasks) < MaxPdfTasks
                /\ serverClock + PollTimeout <= MaxServerClock
                /\ puppeteerTasks' = <<task>> \o puppeteerTasks
                /\ pushedTasks' = Append(pushedTasks, task)
                /\ pdfRequest' = [at |-> "polling", projectId |-> projectId, shortId |-> shortId,
                                  taskId |-> taskId, title |-> reportData(short).title,
                                  pollStartTime |-> serverClock, wakeAt |-> serverClock,
                                  status |-> 0]
                /\ UNCHANGED httpResponse
    /\ UNCHANGED <<projects, serverClock, puppeteerResponses, pageVars>>

\* a variant of the poll loop without the test of the poll window
PdfPollNoWindow ==
    /\ pdfRequest.at = "polling"
    /\ serverClock >= pdfRequest.wakeAt
    /\ IF pdfRequest.taskId \in DOMAIN puppeteerResponses
       THEN IF puppeteerResponses[pdfRequest.taskId].status = "error"
            THEN /\ Respond("GET report/pdf", 500, NoHeaders, Text("Failed to generate PDF report."))
                 /\ pdfRequest' = PdfResponded(500)
            ELSE /\ Respond("GET report/pdf", 200, PdfHeaders(pdfRequest.title), [file |-> pdfRequest.taskId])
                 /\ pdfRequest' = PdfResponded(200)
       ELSE /\ pdfRequest' = [pdfRequest EXCEPT !.wakeAt = serverClock + PollInterval]
            /\ UNCHANGED httpResponse
    /\ UNCHANGED <<projects, serverClock, puppeteerTasks, puppeteerResponses,
                   pushedTasks, pageVars>>
\* One turn of the poll loop of the report/pdf handler, and what follows the loop.
PdfPoll ==
    /\ pdfRequest.at = "polling"
    /\ serverClock >= pdfRequest.wakeAt
    /\ IF serverClock - pdfRequest.pollStartTime < PollTimeout
       THEN IF pdfRequest.taskId \in DOMAIN puppeteerResponses
            THEN IF puppeteerResponses[pdfRequest.taskId].status = "error"
                 THEN /\ Respond("GET report/pdf", 500, NoHeaders, Text("Failed to generate PDF report."))
                      /\ pdfRequest' = PdfResponded(500)
                 ELSE /\ Respond("GET report/pdf", 200, PdfHeaders(pdfRequest.title), [file |-> pdfRequest.taskId])
                      /\ pdfRequest' = PdfResponded(200)
            ELSE /\ pdfRequest' = [pdfRequest EXCEPT !.wakeAt = serverClock + PollInterval]
                 /\ UNCHANGED httpResponse
       ELSE /\ Respond("GET report/pdf", 500, NoHeaders, Text("Failed to generate PDF report."))
            /\ pdfRequest' = PdfResponded(500)
    /\ UNCHANGED <<projects, serverClock, puppeteerTasks, puppeteerResponses,
                   pushedTasks, pageVars>>

\* The worker's loop: brPop takes the oldest task; executeTask writes a success or an
\* error result under the task's key, or getBrowser() throws and nothing is written.
WorkerOutcomes == {"success", "error", "none"}
PuppeteerWorker(outcome) ==
    /\ puppeteerTasks # <<>>
    /\ LET task == puppeteerTasks[Len(puppeteerTasks)]
       IN  /\ puppeteerTasks' = SubSeq(puppeteerTasks, 1, Len(puppeteerTasks) - 1)
           /\ puppeteerResponses' =
                 IF outcome = "none" THEN puppeteerResponses
                 ELSE [ t \in DOMAIN puppeteerResponses \cup {task.task_id} |->
                          IF t = task.task_id
                          THEN [status |-> outcome, writtenAt |-> serverClock]
                          ELSE puppeteerResponses[t] ]
    /\ UNCHANGED <<projects, serverClock, pdfRequest, httpResponse, pushedTasks,
                   pageVars>>

\* Time passes on the server, seen at the grain of the poll interval; a poll that is
\* due is made before the clock moves on.
TimePasses ==
    /\ serverClock < MaxServerClock
    /\ IF pdfRequest.at = "polling"
       THEN serverClock < pdfRequest.wakeAt
       ELSE serverClock < MaxIdleClock
    /\ serverClock' = serverClock + PollInterval
    /\ UNCHANGED <<projects, puppeteerTasks, puppeteerResponses, pdfRequest, httpResponse,
                   pushedTasks, pageVars>>

\* requests the clients of the model send
StoredProject == "proj-1"
ProjectIds == {StoredProject, "proj-404"}
RequestShortIds == {0, 1000, 404}
TestScript == [hook |-> "This is the hook!", immersion |-> "This is the immersion part.",
               body |-> "This is the main body of the short.", cta |-> "Call to action here!"]
PostBodies ==
    { [ title |-> "E2E Test Short", description |-> "Short generated for E2E test",
        script |-> TestScript, images |-> <<"/uploads/images/uploaded.png">>,
        titleLine1 |-> "Awesome", titleLine2 |-> "Short",
        youtubeUrl |-> "https://www.youtube.com/watch?v=mock-video-id" ],
      [ description |-> "" ] }
PutBodies ==
    { [ title |-> "", script |-> [EmptyScript EXCEPT !.body = "b"] ],
      [ youtubeViewCount |-> "100000" ] }

\* a short handler that has read the project and has not yet written it
Requests == 1..MaxRequests
NoBody == [none |-> TRUE]
NoRequest ==
    [at |-> "idle", route |-> "", shortId |-> 0, body |-> NoBody, project |-> <<>>,
     status |-> 0, result |-> Text("")]

\* const project = await readProject(projectId), for the stored project: the handler
\* holds its own copy of the shorts until it has computed what to write
ReadProject(r, route, shortId, body) ==
    /\ inFlight[r].at = "idle"
    /\ inFlight' = [inFlight EXCEPT ![r] =
                       [at |-> "read", route |-> route, shortId |-> shortId, body |-> body,
                        project |-> projects[StoredProject], status |-> 0,
                        result |-> Text("")]]
    /\ UNCHANGED <<projects, serverClock, puppeteerTasks, puppeteerResponses, pdfRequest,
                   httpResponse, pushedTasks, pageVars>>

\* what a handler does with the project it read: the status and body it sends and
\* the shorts it writes (write is FALSE on the paths that return before writeProject)
Outcome(req, now) ==
    CASE req.route = "POST shorts" ->
           LET short == newShort(StoredProject, req.body, now)
           IN  [status |-> 201, result |-> short, write |-> TRUE,
                shorts |-> Append(req.project, short)]
      [] req.route = "PUT short" ->
           LET shortIndex == findIndex(req.project, req.shortId)
           IN  IF shortIndex = 0
               THEN [status |-> 404, result |-> Text("Short not found."), write |-> FALSE,
                     shorts |-> req.project]
               ELSE LET updated == updatedShort(req.project[shortIndex], req.body,
                                                StoredProject, req.shortId)
                    IN  [status |-> 200, result |-> updated, write |-> TRUE,
                         shorts |-> [req.project EXCEPT ![shortIndex] = updated]]
      [] req.route = "DELETE short" ->
           LET kept == SelectSeq(req.project, LAMBDA s : s.id # req.shortId)
           IN  IF Len(kept) = Len(req.project)
               THEN [status |-> 404, result |-> Text("Short not found."), write |-> FALSE,
                     shorts |-> req.project]
               ELSE [status |-> 204, result |-> Text(""), write |-> TRUE, shorts |-> kept]

\* the handler resumes after readProject: it changes its copy, awaits writeProject
\* (one HSET of the whole shorts array) and responds
WriteProject(r) ==
    LET req == inFlight[r]
        out == Outcome(req, serverClock)
    IN  /\ req.at = "read"
        /\ projects' = IF out.write THEN [projects EXCEPT ![StoredProject] = out.shorts]
                       ELSE projects
        /\ Respond(req.route, out.status, NoHeaders, out.result)
        /\ inFlight' = [inFlight EXCEPT ![r].at = "responded", ![r].status = out.status,
                                        ![r].result = out.result]
        /\ UNCHANGED <<serverClock, puppeteerTasks, puppeteerResponses, pdfRequest,
                       pushedTasks, pageVars>>

InitIdleServer ==
    /\ serverClock = 0
    /\ inFlight = [r \in Requests |-> NoRequest]
    /\ puppeteerTasks = <<>>
    /\ puppeteerResponses = <<>>
    /\ pdfRequest = NoPdfRequest
    /\ httpResponse = [route |-> "", status |-> 0, headers |-> NoHeaders, body |-> Text("")]
    /\ pushedTasks = <<>>
InitServer ==
    /\ projects = [p \in {StoredProject} |-> <<>>]
    /\ InitIdleServer

\* ------------------------------------------------------- fullscreen preview
\* PreviewPlayer stays mounted while it is closed (it renders null), so its state
\* outlives a close.  animate is a closure of the render whose effect requested the
\* frame: it sees the isPlaying, currentClipIndex and clips of that render, and it
\* requests itself again, so the loop keeps that closure until the effect runs anew.
PreviewClosed ==
    [isOpen |-> FALSE, currentClipIndex |-> 0, timeInClip |-> 0, isPlaying |-> FALSE,
     now |-> 0, lastTimeRef |-> 0, frameRequested |-> FALSE,
     animate |-> [isPlaying |-> FALSE, currentClipIndex |-> 0]]
InitPreview == preview = PreviewClosed

Infinity == Undefined
\* clips[currentClipIndex]?.audio?.duration || Infinity, ms
currentClipDuration(cl, index) ==
    IF index + 1 \in DOMAIN cl /\ cl[index + 1].audio # NoAudio
       /\ cl[index + 1].audio.duration # Undefined /\ cl[index + 1].audio.duration # 0
    THEN cl[index + 1].audio.duration
    ELSE Infinity

\* the effect on [isOpen, clips] while isOpen: the state is reset and a frame is
\* requested for the animate of the render the effect belongs to
PreviewEffect(pv) ==
    [pv EXCEPT !.currentClipIndex = 0, !.timeInClip = 0, !.isPlaying = TRUE,
               !.lastTimeRef = pv.now, !.frameRequested = TRUE,
               !.animate = [isPlaying |-> pv.isPlaying,
                            currentClipIndex |-> pv.currentClipIndex]]

\* the "Fullscreen Preview" button (disabled without clips): setIsPreviewOpen(true)
openPreview ==
    /\ ~preview.isOpen
    /\ clips # <<>>
    /\ preview' = PreviewEffect([preview EXCEPT !.isOpen = TRUE])
    /\ UNCHANGED <<nonExportVars, exportVars>>

\* onClose: the effect takes its else branch and its cleanup cancels the frame
onClose ==
    /\ preview.isOpen
    /\ preview' = [preview EXCEPT !.isOpen = FALSE, !.isPlaying = FALSE,
                                  !.frameRequested = FALSE]
    /\ UNCHANGED <<nonExportVars, exportVars>>

\* animate(now): the frame callback, delta after the previous one
animate(delta) ==
    LET now == preview.now + delta
        newTime == preview.timeInClip + (now - preview.lastTimeRef)
        duration == currentClipDuration(clips, preview.animate.currentClipIndex)
        ticked == [preview EXCEPT !.now = now, !.lastTimeRef = now]
    IN  /\ preview.frameRequested
        /\ now <= MaxClock
        /\ preview' =
              IF ~preview.animate.isPlaying THEN ticked
              ELSE IF duration = Infinity \/ newTime < duration
                   THEN [ticked EXCEPT !.timeInClip = newTime]
              ELSE IF preview.animate.currentClipIndex < Len(clips) - 1
                   THEN [ticked EXCEPT !.currentClipIndex = @ + 1, !.timeInClip = 0]
              ELSE [ticked EXCEPT !.isPlaying = FALSE, !.timeInClip = duration]
        /\ UNCHANGED <<nonExportVars, exportVars>>

\* the subtitle of the selected clip is typed into from the keyboard while the
\* overlay is open: setClips gives the clips prop a new identity and the effect
\* of PreviewPlayer runs again
PreviewClipsChange(clipId, text) ==
    /\ preview.isOpen
    /\ handleClipSubtitleChange(clipId, text)
    /\ preview' = PreviewEffect(preview)

\* ------------------------------------------------------------ specifications
InitSettings == settings = InitialSettings /\ settingEdits = 0

InitExport ==
    /\ editCount = 0
    /\ isRendering = FALSE
    /\ renderProgress = 0
    /\ renderMessage = <<>>
    /\ generatedVideoUrl = "null"
    /\ alertShown = ""
    /\ pc = "idle"
    /\ rClips = <<>>
    /\ rTemplate = "classic-dark"
    /\ rTotalDuration = 0
    /\ audioTracks = <<>>
    /\ trackIndex = 0
    /\ currentTimestamp = 0
    /\ audioChunks = <<>>
    /\ videoFrames = <<>>
    /\ videoEncoderState = "none"
    /\ audioEncoderState = "none"
    /\ lastError = "none"

InitText ==
    /\ subtitle = NewClipSubtitle
    /\ defaultOpacity = SubtitleDefaultOpacity
    /\ TextNotRendered

\* the editor as constructed
Init ==
    /\ lastCall = NoCall
    /\ InitServer
    /\ InitPreview
    /\ imageElements = NoElements
    /\ clips = <<>>
    /\ selectedClipId = NoId
    /\ nextId = 1
    /\ totalDuration = 0
    /\ isPlaying = FALSE
    /\ playbackTime = 0
    /\ lastTimestampRef = 0
    /\ canvas = Placeholder
    /\ InitSettings
    /\ InitExport
    /\ InitText

NoExportEdit == UNCHANGED editCount

Next ==
    \/ handleAddEmptyClip /\ NoExportEdit /\ Called("handleAddEmptyClip", <<>>)
    \/ \E id \in 1..MaxIds :
          handleDeleteClip(id) /\ NoExportEdit /\ Called("handleDeleteClip", <<id>>)
    \/ \E a \in 1..MaxIds, o \in 0..MaxIds :
          handleDragEnd(a, o) /\ NoExportEdit /\ Called("handleDragEnd", <<a, o>>)
    \/ \E id \in 1..MaxIds :
          handleTimelineClipClick(id) /\ NoExportEdit /\ Called("handleTimelineClipClick", <<id>>)
    \/ \E id \in 1..MaxIds, au \in AudioChoices :
          handleClipAudioChange(id, au) /\ NoExportEdit /\ Called("handleClipAudioChange", <<id, au>>)

Spec == Init /\ [][Next]_vars

\* The editor as constructed, with the timeline and the clip inspector in use.
InspectorEdit == editCount < MaxInspectorEdits /\ editCount' = editCount + 1

NextTimeline ==
    \/ handleAddEmptyClip /\ NoExportEdit /\ Called("handleAddEmptyClip", <<>>)
    \/ \E id \in 1..MaxIds :
          handleDeleteClip(id) /\ NoExportEdit /\ Called("handleDeleteClip", <<id>>)
    \/ \E a \in 1..MaxIds, o \in 0..MaxIds :
          handleDragEnd(a, o) /\ NoExportEdit /\ Called("handleDragEnd", <<a, o>>)
    \/ \E id \in 1..MaxIds :
          handleTimelineClipClick(id) /\ NoExportEdit /\ Called("handleTimelineClipClick", <<id>>)
    \/ \E id \in 1..MaxIds, text \in UserSubtitles :
          handleClipSubtitleChange(id, text) /\ InspectorEdit
          /\ Called("handleClipSubtitleChange", <<id>>)
    \/ \E id \in 1..MaxIds, type \in BackgroundTypes :
          handleClipBackgroundTypeChange(id, type) /\ InspectorEdit
          /\ Called("handleClipBackgroundTypeChange", <<id>>)
    \/ \E id \in 1..MaxIds, color \in UserColors :
          handleClipBackgroundColorChange(id, color) /\ InspectorEdit
          /\ Called("handleClipBackgroundColorChange", <<id>>)
    \/ \E id \in 1..MaxIds, image \in ImageChoices :
          handleClipImageChange(id, image) /\ InspectorEdit
          /\ Called("handleClipImageChange", <<id>>)
    \/ \E id \in 1..MaxIds, au \in InspectorAudio :
          handleClipAudioChange(id, au) /\ InspectorEdit
          /\ Called("handleClipAudioChange", <<id>>)

SpecTimeline == Init /\ [][NextTimeline]_vars

\* Timelines the editor can hold: clip i was created i-th.
RECURSIVE TimelinesOfLen(_)
TimelinesOfLen(n) ==
    IF n = 0 THEN { <<>> }
    ELSE { Append(t, [NewClip(n) EXCEPT !.audio = a]) : t \in TimelinesOfLen(n - 1), a \in AudioChoices }

Timelines == UNION { TimelinesOfLen(n) : n \in 0..MaxClips }

InitPlayback ==
    /\ lastCall = NoCall
    /\ InitServer
    /\ InitPreview
    /\ imageElements = NoElements
    /\ clips \in Timelines
    /\ selectedClipId = NoId
    /\ nextId = Len(clips) + 1
    /\ totalDuration = ComputeTotalDuration(clips)
    /\ isPlaying = FALSE
    /\ playbackTime = 0
    /\ lastTimestampRef = 0
    /\ canvas = drawFrame(clips, 0, 1)
    /\ InitSettings
    /\ InitExport
    /\ InitText

NextPlayback ==
    \/ handlePlayPause /\ Called("handlePlayPause", <<>>)
    \/ \E d \in Deltas : animatePlayback(lastTimestampRef + d) /\ Called("animatePlayback", <<>>)
    \/ \E v \in SeekPositions : SeekTo(v) /\ Called("SeekTo", <<v>>)
    \/ \E id \in 1..MaxClips :
          handleDeleteClip(id) /\ NoExportEdit /\ Called("handleDeleteClip", <<id>>)

SpecPlayback == InitPlayback /\ [][NextPlayback]_vars

InitPreviewPlayer ==
    /\ lastCall = NoCall
    /\ InitServer
    /\ InitPreview
    /\ imageElements = NoElements
    /\ clips \in Timelines
    /\ selectedClipId = IF clips = <<>> THEN NoId ELSE 1
    /\ nextId = Len(clips) + 1
    /\ totalDuration = ComputeTotalDuration(clips)
    /\ isPlaying = FALSE
    /\ playbackTime = 0
    /\ lastTimestampRef = 0
    /\ canvas = drawFrame(clips, 0, 1)
    /\ InitSettings
    /\ InitExport
    /\ InitText

PreviewStep(name, args) ==
    lastCall' = [name |-> name, args |-> args] /\ UNCHANGED <<serverVars, inFlight>>

NextPreviewPlayer ==
    \/ openPreview /\ PreviewStep("openPreview", <<>>)
    \/ onClose /\ PreviewStep("onClose", <<>>)
    \/ \E d \in Deltas : animate(d) /\ PreviewStep("animate", <<d>>)
    \/ \E text \in UserSubtitles :
          PreviewClipsChange(1, text) /\ NoExportEdit
          /\ PreviewStep("handleClipSubtitleChange", <<1>>)

SpecPreviewPlayer == InitPreviewPlayer /\ [][NextPreviewPlayer]_vars

\* The editor with a timeline and a selected clip, before the render button is
\* pressed: never rendered, or after an earlier export that succeeded.
InitRender ==
    /\ lastCall = NoCall
    /\ InitServer
    /\ InitPreview
    /\ imageElements = NoElements
    /\ clips \in Timelines \ {<<>>}
    /\ selectedClipId = clips[1].id
    /\ nextId = Len(clips) + 1
    /\ totalDuration = ComputeTotalDuration(clips)
    /\ isPlaying = FALSE
    /\ playbackTime = 0
    /\ lastTimestampRef = 0
    /\ canvas = drawFrame(clips, 0, 1)
    /\ InitSettings
    /\ InitText
    /\ \/ InitExport
       \/ /\ editCount = 0
          /\ isRendering = FALSE
          /\ renderProgress = 100
          /\ renderMessage = <<"Done!">>
          /\ generatedVideoUrl = "blob:earlier"
          /\ alertShown = ""
          /\ pc = "idle"
          /\ rClips = <<>>
          /\ rTemplate = "classic-dark"
          /\ rTotalDuration = 0
          /\ audioTracks = <<>>
          /\ trackIndex = 0
          /\ currentTimestamp = 0
          /\ audioChunks = <<>>
          /\ videoFrames = <<>>
          /\ videoEncoderState = "none"
          /\ audioEncoderState = "none"
          /\ lastError = "none"

NextRender ==
    \/ handleRender /\ Untraced
    \/ ResumeArrayBuffer /\ Untraced
    \/ \E decoded \in BOOLEAN : ResumeDecode(decoded) /\ Untraced
    \/ \E hasAudioData \in BOOLEAN : ResumeRendering(hasAudioData) /\ Untraced
    \/ \E hasVideoFrame \in BOOLEAN : ResumeAudioFlush(hasVideoFrame) /\ Untraced
    \/ ResumeVideoFlush /\ Untraced
    \/ VideoEncoderError /\ Untraced
    \/ AudioEncoderError /\ Untraced
    \/ handleAddEmptyClip /\ EditInFlight /\ Untraced
    \/ \E id \in 1..MaxClips : handleDeleteClip(id) /\ EditInFlight /\ Untraced
    \/ \E a \in 1..MaxClips, o \in 0..MaxClips : handleDragEnd(a, o) /\ a # o /\ EditInFlight /\ Untraced
    \/ \E id \in 1..MaxClips, au \in AudioChoices : handleClipAudioChange(id, au) /\ EditInFlight /\ Untraced
    \/ \E t \in Templates : handleTemplateChange(t) /\ NoSettingEdit /\ EditInFlight /\ Untraced

SpecRender == InitRender /\ [][NextRender]_vars

\* NextRender and handleRender called once more while the export is in flight
NextRenderAgain ==
    \/ NextRender
    \/ handleRenderAgain /\ Called("handleRender", <<>>)

SpecRenderAgain == InitRender /\ [][NextRenderAgain]_vars

\* The parsers applied to a text and a default opacity.
InitParse ==
    /\ lastCall = NoCall
    /\ InitServer
    /\ InitPreview
    /\ imageElements = NoElements
    /\ clips = <<>>
    /\ selectedClipId = NoId
    /\ nextId = 1
    /\ totalDuration = 0
    /\ isPlaying = FALSE
    /\ playbackTime = 0
    /\ lastTimestampRef = 0
    /\ canvas = Placeholder
    /\ InitSettings
    /\ InitExport
    /\ subtitle \in Texts
    /\ defaultOpacity \in Defaults
    /\ TextNotRendered

NextParse == ParseText /\ Untraced

SpecText == InitParse /\ [][NextParse]_vars

\* A clip with a subtitle on screen, in the editor and in the fullscreen preview,
\* under each template.
InitSubtitle ==
    /\ lastCall = NoCall
    /\ InitServer
    /\ InitPreview
    /\ imageElements = NoElements
    /\ subtitle \in Texts
    /\ clips = << [NewClip(1) EXCEPT !.subtitle = subtitle] >>
    /\ selectedClipId = 1
    /\ nextId = 2
    /\ totalDuration = ComputeTotalDuration(clips)
    /\ isPlaying = FALSE
    /\ playbackTime = 0
    /\ lastTimestampRef = 0
    /\ canvas = drawFrame(clips, 0, 1)
    /\ settings \in { InitialSettings } \cup { MergeTemplate(InitialSettings, t) : t \in Templates }
    /\ settingEdits = 0
    /\ InitExport
    /\ defaultOpacity = SubtitleDefaultOpacity
    /\ TextNotRendered

NextSubtitle ==
    \/ drawMediaFrame /\ Untraced
    \/ PreviewPlayer /\ Untraced

SpecSubtitle == InitSubtitle /\ [][NextSubtitle]_vars

\* A clip on screen whose background is an image or a colour, while image files are
\* dropped and load, under each template.
InitFrame ==
    /\ lastCall = NoCall
    /\ InitServer
    /\ InitPreview
    /\ imageElements = NoElements
    /\ subtitle \in { <<>>, NewClipSubtitle }
    /\ \E image \in ImageChoices, type \in BackgroundTypes :
          clips = << [NewClip(1) EXCEPT !.subtitle = subtitle, !.image = image,
                                        !.backgroundType = type] >>
    /\ selectedClipId = 1
    /\ nextId = 2
    /\ totalDuration = ComputeTotalDuration(clips)
    /\ isPlaying = FALSE
    /\ playbackTime = 0
    /\ lastTimestampRef = 0
    /\ canvas = drawFrame(clips, 0, 1)
    /\ settings \in { MergeTemplate(InitialSettings, t) : t \in Templates }
    /\ settingEdits = 0
    /\ InitExport
    /\ defaultOpacity = SubtitleDefaultOpacity
    /\ TextNotRendered

NextFrame ==
    \/ \E name \in ElementKeys : handleFileDrop(name) /\ Untraced
    \/ \E name \in ElementKeys, element \in {LoadingSized, Loaded, Broken, ZeroHeight} :
          ImageLoadProgress(name, element) /\ Untraced
    \/ drawMediaFrame /\ Untraced

SpecFrame == InitFrame /\ [][NextFrame]_vars

\* The geometry of the image is a function of the image's size and of the settings:
\* its inputs range over images wider, taller and smaller than the band, over the
\* three aspect ratios and templates, over titles of no, one and twelve lines and
\* over what the "Top (%)" input of the settings modal takes.
ImageSizes ==
    { [complete |-> TRUE, naturalWidth |-> w, naturalHeight |-> h] :
        <<w, h>> \in { <<640, 480>>, <<540, 2000>>, <<2000, 540>>, <<100, 100>> } }
ImageScales == {50, 100, 300}
TopGuidelines == {15, 90}
TitleTexts(template) ==
    { TEMPLATE_PRESETS(template).titleLine1, TEMPLATE_PRESETS(template).examTitle,
      TwelveLines }
ImageSettings ==
    { [MergeTemplate(InitialSettings, t) EXCEPT
          !.aspectRatio = a, !.imageScale = s, !.topGuideline = g,
          !.titleLine1 = IF t = "exam-korean" THEN @ ELSE title,
          !.examTitle = IF t = "exam-korean" THEN title ELSE @] :
        t \in Templates, a \in AspectRatios, s \in ImageScales, g \in TopGuidelines,
        title \in UNION { TitleTexts(u) : u \in Templates } }

InitImage ==
    /\ lastCall = NoCall
    /\ InitServer
    /\ InitPreview
    /\ \E element \in ImageSizes :
          imageElements = [NoElements EXCEPT !["id_201"] = element]
    /\ subtitle = <<>>
    /\ \E image \in ImageBin :
          clips = << [NewClip(1) EXCEPT !.image = image, !.backgroundType = "image"] >>
    /\ selectedClipId = 1
    /\ nextId = 2
    /\ totalDuration = ComputeTotalDuration(clips)
    /\ isPlaying = FALSE
    /\ playbackTime = 0
    /\ lastTimestampRef = 0
    /\ canvas = drawFrame(clips, 0, 1)
    /\ settings \in ImageSettings
    /\ settingEdits = 0
    /\ InitExport
    /\ defaultOpacity = SubtitleDefaultOpacity
    /\ TextNotRendered

NextImage == drawMediaFrame /\ Untraced

SpecImage == InitImage /\ [][NextImage]_vars

AllNumberFields == UNION { NumberFields(t) : t \in Templates }
AllStringFields == UNION { StringFields(t) : t \in Templates }

\* the settings modal of the editor as constructed
NextSettings ==
    \/ \E key \in AllNumberFields, value \in UserNumbers :
          handleNumericSettingsChange(key, value) /\ SettingEdit /\ NoExportEdit /\ Untraced
    \/ \E key \in AllStringFields, value \in UserStrings :
          handleStringSettingsChange(key, value) /\ SettingEdit /\ NoExportEdit /\ Untraced
    \/ \E aspectRatio \in AspectRatios :
          handleAspectRatioChange(aspectRatio) /\ SettingEdit /\ NoExportEdit /\ Untraced
    \/ \E template \in Templates :
          handleTemplateChange(template) /\ NoSettingEdit /\ NoExportEdit /\ Untraced

SpecSettings == Init /\ [][NextSettings]_vars

\* Two clients of the stored project whose requests the server handles at the same
\* time.  The project is empty or holds one short created a second before.
EarlierShort == newShort(StoredProject, [title |-> "Earlier Short"], 0 - 1000)
InitRequests ==
    /\ lastCall = NoCall
    /\ projects \in { [p \in {StoredProject} |-> shorts] : shorts \in { <<>>, <<EarlierShort>> } }
    /\ InitIdleServer
    /\ InitPreview
    /\ imageElements = NoElements
    /\ clips = <<>>
    /\ selectedClipId = NoId
    /\ nextId = 1
    /\ totalDuration = 0
    /\ isPlaying = FALSE
    /\ playbackTime = 0
    /\ lastTimestampRef = 0
    /\ canvas = Placeholder
    /\ InitSettings
    /\ InitExport
    /\ InitText

Requested(name, r) == lastCall' = [name |-> name, args |-> [request |-> r]]

NextRequests ==
    \/ \E r \in Requests, body \in PostBodies :
          ReadProject(r, "POST shorts", 0, body) /\ Requested("readProject", r)
    \/ \E r \in Requests, body \in PutBodies :
          ReadProject(r, "PUT short", EarlierShort.id, body) /\ Requested("readProject", r)
    \/ \E r \in Requests :
          ReadProject(r, "DELETE short", EarlierShort.id, NoBody)
          /\ Requested("readProject", r)
    \/ \E r \in Requests : WriteProject(r) /\ Requested("writeProject", r)
    \/ TimePasses /\ Handled("TimePasses", <<>>)

SpecRequests == InitRequests /\ [][NextRequests]_vars

\* The server with one stored project and its clients.  Of the PDF reports only those
\* of shorts that are not stored are requested here; SpecPdf has the others.
NextApi ==
    \/ \E p \in ProjectIds : GetShorts(p) /\ Handled("GetShorts", [projectId |-> p])
    \/ \E p \in ProjectIds, body \in PostBodies :
          PostShort(p, body) /\ Handled("PostShort", [projectId |-> p, body |-> body])
    \/ \E p \in ProjectIds, id \in RequestShortIds, body \in PutBodies :
          PutShort(p, id, body) /\ Handled("PutShort", [projectId |-> p, shortId |-> id, body |-> body])
    \/ \E p \in ProjectIds, id \in RequestShortIds :
          DeleteShort(p, id) /\ Handled("DeleteShort", [projectId |-> p, shortId |-> id])
    \/ \E p \in ProjectIds, id \in RequestShortIds :
          GetShort(p, id) /\ Handled("GetShort", [projectId |-> p, shortId |-> id])
    \/ \E p \in ProjectIds, id \in RequestShortIds :
          GetReport(p, id) /\ Handled("GetReport", [projectId |-> p, shortId |-> id])
    \/ \E p \in ProjectIds, id \in RequestShortIds :
          /\ getShortReportError(p, id) # ""
          /\ GetReportPdf(p, id) /\ Handled("GetReportPdf", [projectId |-> p, shortId |-> id])
    \/ TimePasses /\ Handled("TimePasses", <<>>)

SpecApi == Init /\ [][NextApi]_vars

\* The server, its clients and the Puppeteer worker: shorts are created, then PDF
\* reports are requested.  The event loop runs the handler's next poll when its
\* timer fires, and time does not stop.
NextPdf ==
    \/ \E body \in PostBodies :
          /\ pdfRequest.at = "idle"
          /\ PostShort(StoredProject, body) /\ Handled("PostShort", [projectId |-> StoredProject, body |-> body])
    \/ \E p \in ProjectIds, id \in RequestShortIds :
          GetReportPdf(p, id) /\ Handled("GetReportPdf", [projectId |-> p, shortId |-> id])
    \/ PdfPoll /\ Handled("PdfPoll", <<>>)
    \/ \E outcome \in WorkerOutcomes :
          PuppeteerWorker(outcome) /\ Handled("PuppeteerWorker", [outcome |-> outcome])
    \/ TimePasses /\ Handled("TimePasses", <<>>)

SpecPdf ==
    /\ Init /\ [][NextPdf]_vars
    /\ WF_vars(PdfPoll /\ Handled("PdfPoll", <<>>))
    /\ WF_vars(TimePasses /\ Handled("TimePasses", <<>>))


\* ===================================================================== claims
HasAudio(c) == c.audio # NoAudio
DefaultMs == DEFAULT_CLIP_DURATION * MsPerSecond

RECURSIVE SumAudioOrDefault(_)
SumAudioOrDefault(cl) ==
    IF cl = <<>> THEN 0
    ELSE (IF HasAudio(Head(cl)) THEN Head(cl).audio.duration ELSE DefaultMs)
         + SumAudioOrDefault(Tail(cl))

HasKnownDuration(c) == HasAudio(c) /\ c.audio.duration > 0

RECURSIVE SumKnownOrDefault(_)
SumKnownOrDefault(cl) ==
    IF cl = <<>> THEN 0
    ELSE (IF HasKnownDuration(Head(cl)) THEN Head(cl).audio.duration ELSE DefaultMs)
         + SumKnownOrDefault(Tail(cl))

IsReorderOf(a, b) ==
    /\ Len(a) = Len(b)
    /\ \A c \in Range_(a) : Cardinality({i \in 1..Len(a) : a[i] = c})
                            = Cardinality({i \in 1..Len(b) : b[i] = c})

\* C2 as stated: after any sequence of timeline operations totalDuration is the sum,
\* in order, of each clip's effective duration, which is the audio asset's duration
\* when the clip has audio and DEFAULT_CLIP_DURATION when it has none.
C2_TotalIsAudioOrDefaultSum == totalDuration = SumAudioOrDefault(clips)

\* C2 amended: after any sequence of timeline operations totalDuration is the sum, in
\* order, of each clip's effective duration, which is the audio asset's duration when
\* the clip has audio whose duration is known and not zero, and DEFAULT_CLIP_DURATION
\* otherwise; a step that only reorders the clips leaves totalDuration unchanged.
C2_TotalIsEffectiveSum ==
    /\ [](totalDuration = SumKnownOrDefault(clips))
    /\ [][IsReorderOf(clips, clips') => totalDuration' = totalDuration]_vars

\* C2 witness: a timeline that was reordered and has a clip with a probed audio, a clip
\* whose audio has no duration and a clip without audio.
C2_Witness ==
    /\ Len(clips) = 3
    /\ clips[1].id > clips[2].id
    /\ \E i, j, k \in 1..3 :
          /\ HasKnownDuration(clips[i])
          /\ HasAudio(clips[j]) /\ ~HasKnownDuration(clips[j])
          /\ ~HasAudio(clips[k])
          /\ totalDuration = clips[i].audio.duration + 2 * DefaultMs

\* start of clip i on the timeline: the effective durations before it
StartOf(cl, i) == ComputeTotalDuration(SubSeq(cl, 1, i - 1))
InSpan(cl, i, t) == StartOf(cl, i) <= t /\ t < StartOf(cl, i) + ClipDuration(cl[i])

\* C3: the frame painted for time t shows (a) the one clip whose span
\* [start, start + duration) contains t, (b) the last clip when t >= totalDuration,
\* (c) the placeholder when the timeline is empty; currentPlaybackData resolves the
\* same clip for the same t.
C3_ActiveClipTotal ==
    LET t == playbackTime
        spans == { i \in 1..Len(clips) : InSpan(clips, i, t) }
    IN  /\ t >= 0
        /\ Len(clips) = 0 => canvas = Placeholder
        /\ Len(clips) > 0 /\ t >= ComputeTotalDuration(clips)
              => spans = {} /\ canvas = clips[Len(clips)].id
        /\ Len(clips) > 0 /\ t < ComputeTotalDuration(clips)
              => \E i \in 1..Len(clips) : spans = {i} /\ canvas = clips[i].id
        /\ currentPlaybackData(clips, totalDuration, t).clip = canvas

\* C3 witness: the playhead is past the end of a timeline of two or more clips and
\* the frame shows the last clip.
C3_Witness ==
    /\ Len(clips) >= 2
    /\ playbackTime > totalDuration
    /\ canvas = clips[Len(clips)].id
    /\ currentPlaybackData(clips, totalDuration, playbackTime).clipIndex = Len(clips) - 1

IsTick == lastTimestampRef' # lastTimestampRef
TickDelta == IF lastTimestampRef = 0 THEN 0 ELSE lastTimestampRef' - lastTimestampRef

\* C10: a tick taken while Playing whose prevTime + delta reaches or exceeds
\* totalDuration sets playbackTime to exactly totalDuration and stops the driver; no
\* tick taken while Playing leaves playbackTime above that totalDuration.
C10_TickClampsAndStops ==
    [][ IsTick /\ isPlaying =>
          /\ playbackTime + TickDelta >= totalDuration
                => playbackTime' = totalDuration /\ ~isPlaying'
          /\ playbackTime + TickDelta < totalDuration
                => playbackTime' = playbackTime + TickDelta /\ isPlaying'
          /\ playbackTime' <= totalDuration ]_vars

\* C10 witness: playback ran into the end of a timeline of 3.25 s and was stopped
\* at exactly 3.25 s, a position that no seek and no sum of frame deltas gives.
C10_Witness ==
    /\ Len(clips) = 2
    /\ totalDuration = 3250
    /\ lastTimestampRef > 0
    /\ playbackTime = totalDuration
    /\ ~isPlaying

\* the video pass of the running export has handed its frames to the encoder
FramesSubmitted ==
    \/ pc = "videoFlush"
    \/ pc = "returned" /\ generatedVideoUrl = "blob:video/mp4"

\* t = (k - 1) / FPS seconds lies in the span of clip i of cl
FrameInSpan(cl, i, k) ==
    /\ StartOf(cl, i) * FPS <= (k - 1) * MsPerSecond
    /\ (k - 1) * MsPerSecond < (StartOf(cl, i) + ClipDuration(cl[i])) * FPS

\* C1: an export of a timeline of total duration D submits exactly ceil(D * FPS)
\* frames; frame i (0-based) is painted for time i / FPS, so it shows the clip whose
\* span contains i / FPS, and carries timestamp i * 1000000 / FPS microseconds as an
\* integer (0, 33333, 66666, ... at 30 fps); the timestamps are strictly increasing.
C1_FrameCountAndTimestamps ==
    FramesSubmitted =>
        LET n == Len(videoFrames)
            D == SumKnownOrDefault(rClips)
        IN  /\ n * MsPerSecond >= D * FPS
            /\ (n - 1) * MsPerSecond < D * FPS
            /\ \A k \in 1..n :
                  LET ts == videoFrames[k].timestamp
                  IN  /\ ts * FPS <= (k - 1) * UsPerSecond
                      /\ (k - 1) * UsPerSecond < (ts + 1) * FPS
                      /\ k > 1 => videoFrames[k - 1].timestamp < ts
                      /\ \E i \in 1..Len(rClips) :
                            /\ FrameInSpan(rClips, i, k)
                            /\ videoFrames[k].clip = rClips[i].id
            /\ n >= 3 => /\ videoFrames[1].timestamp = 0
                         /\ videoFrames[2].timestamp = 33333
                         /\ videoFrames[3].timestamp = 66666

\* C1 witness: the export of clips lasting 2 s, 3 s (no audio) and 1 s has finished
\* with 180 frames, the 61st of which is the first to show the second clip.
C1_Witness ==
    /\ pc = "returned"
    /\ generatedVideoUrl = "blob:video/mp4"
    /\ Len(rClips) = 3
    /\ ClipDuration(rClips[1]) = 2000
    /\ ~HasAudio(rClips[2])
    /\ ClipDuration(rClips[3]) = 1000
    /\ Len(videoFrames) = 180
    /\ videoFrames[180].timestamp = 5966666
    /\ videoFrames[60].clip = rClips[1].id
    /\ videoFrames[61].clip = rClips[2].id

IsErrorMessage(m) == Len(m) = 2 /\ m[1] = "Error: "

\* C4: when any stage of an export has failed (a required API is missing, an audio
\* decode rejects, an encoder reports an error), the export has been aborted:
\* generatedVideoUrl is null, neither 'Done!' nor 100 % is reported, isRendering is
\* false again, and a message with the error's text is shown to the user.
C4_FailureAbortsAndIsSurfaced ==
    pc = "returned" /\ lastError # "none" =>
        /\ generatedVideoUrl = "null"
        /\ renderMessage # <<"Done!">>
        /\ renderProgress # 100
        /\ ~isRendering
        /\ alertShown # "" \/ IsErrorMessage(ShownMessage)

\* the ids of the audio files of the clips of cl that have one, in timeline order
RECURSIVE AudioIdsOf(_)
AudioIdsOf(cl) ==
    IF cl = <<>> THEN <<>>
    ELSE (IF HasAudio(Head(cl)) THEN <<Head(cl).audio.id>> ELSE <<>>) \o AudioIdsOf(Tail(cl))

ExportStarts == pc = "idle" /\ pc' \in InFlight
AudioEncoded == pc \in {"audioFlush", "videoFlush"} \/ (pc = "returned" /\ lastError = "none")

\* C5: an export encodes the clips and settings as they were when it started.  What
\* it holds of them is taken at its start and no edit made while it is suspended
\* changes it; its frames are as many as the clips held need, each shows the clip
\* that the clips held have at its time and is drawn with the template held; the
\* audio tracks encoded are those of the clips held, in their order.
C5_ExportUsesSnapshot ==
    /\ [][ExportStarts => (rClips' = clips /\ rTemplate' = settings.template)]_vars
    /\ [][(pc \in InFlight) => (rClips' = rClips /\ rTemplate' = rTemplate)]_vars
    /\ [](pc \in InFlight \/ pc = "returned" =>
            /\ Len(audioChunks) <= Len(AudioIdsOf(rClips))
            /\ \A j \in 1..Len(audioChunks) : audioChunks[j].audio = AudioIdsOf(rClips)[j]
            /\ AudioEncoded => Len(audioChunks) = Len(AudioIdsOf(rClips)))
    /\ [](FramesSubmitted =>
            /\ Len(videoFrames) * MsPerSecond >= SumKnownOrDefault(rClips) * FPS
            /\ (Len(videoFrames) - 1) * MsPerSecond < SumKnownOrDefault(rClips) * FPS
            /\ \A k \in 1..Len(videoFrames) :
                  /\ videoFrames[k].template = rTemplate
                  /\ \E i \in 1..Len(rClips) :
                        /\ FrameInSpan(rClips, i, k)
                        /\ videoFrames[k].clip = rClips[i].id)

\* C5 witness: an export with audio has finished after the timeline was edited while
\* it was suspended at an await of its audio pass; the live timeline now has other
\* audio tracks and needs another number of frames than the export encoded.
C5_Witness ==
    /\ pc = "returned"
    /\ generatedVideoUrl = "blob:video/mp4"
    /\ editCount > 0
    /\ audioChunks # <<>>
    /\ videoFrames # <<>>
    /\ AudioIdsOf(clips) # AudioIdsOf(rClips)
    /\ Len(videoFrames) * MsPerSecond < SumKnownOrDefault(clips) * FPS

PresetKeys == DOMAIN TEMPLATE_PRESETS("classic-dark")
GuidelineKeys == {"topGuideline", "bottomGuideline", "ctaGuideline"}
TemplateChanges == settings'.template # settings.template

\* the default of a style parameter under a template: the entry of the preset, and
\* for a guideline, which no preset has, the value the editor starts with
StyleDefault(template, k) ==
    IF k \in PresetKeys THEN TEMPLATE_PRESETS(template)[k] ELSE InitialSettings[k]

IsPrefix(lit, s) == Len(lit) <= Len(s) /\ SubSeq(s, 1, Len(lit)) = lit
IsSuffix(lit, s) == Len(lit) <= Len(s) /\ SubSeq(s, Len(s) - Len(lit) + 1, Len(s)) = lit
Folded(s) == [i \in 1..Len(s) |-> LowerCase(s[i])]
IsAt(lit, s, i) == i + Len(lit) - 1 <= Len(s) /\ SubSeq(s, i, i + Len(lit) - 1) = lit
Occurs(lit, s) == \E i \in 1..Len(s) : IsAt(lit, s, i)
OccursAnyCase(lit, s) == LET fs == Folded(s) IN Occurs(Folded(lit), fs)
AllDigits(s) == s # <<>> /\ \A i \in 1..Len(s) : s[i] \in Digits

RECURSIVE Decimal(_)
Decimal(ds) ==
    IF ds = <<>> THEN 0
    ELSE 10 * Decimal(SubSeq(ds, 1, Len(ds) - 1)) + DigitValue(ds[Len(ds)])

\* t is [bg_opacity= then a value then ] then a body then [/bg_opacity]
HasWrapperShape(t) ==
    /\ IsPrefix(OpenPrefix, t)
    /\ IsSuffix(CloseTag, t)
    /\ \E e \in (Len(OpenPrefix) + 1)..(Len(t) - Len(CloseTag)) : t[e] = "]"
ValueEnd(t) == Min({ e \in (Len(OpenPrefix) + 1)..Len(t) : t[e] = "]" })
WrapperValue(t) == SubSeq(t, Len(OpenPrefix) + 1, ValueEnd(t) - 1)
WrapperBody(t) == SubSeq(t, ValueEnd(t) + 1, Len(t) - Len(CloseTag))
IsWrapper(t) == HasWrapperShape(t) /\ AllDigits(WrapperValue(t))
HasNoWrapperTag(t) ==
    /\ ~OccursAnyCase(<<"[">> \o TagName, t)
    /\ ~OccursAnyCase(<<"[", "/">> \o TagName, t)

\* s holds a complete wrapper: an opening tag with a number and a closing tag after it
HoldsCompleteWrapper(s) ==
    LET fs == Folded(s)
    IN  \E i \in 1..Len(s) :
            /\ IsAt(OpenPrefix, fs, i)
            /\ \E e \in (i + Len(OpenPrefix) + 1)..Len(s) :
                  /\ s[e] = "]"
                  /\ AllDigits(SubSeq(s, i + Len(OpenPrefix), e - 1))
                  /\ \E k \in (e + 1)..Len(s) : IsAt(CloseTag, fs, k)

\* what both statements of C7 say of the opacity and of texts without a wrapper tag
OpacityRules(t, d, r) ==
    /\ HasNoWrapperTag(t) => r = [cleanText |-> t, bgOpacity |-> d]
    /\ IsWrapper(t) /\ Decimal(WrapperValue(t)) > 100 => r.bgOpacity = d
    /\ d \in 0..100 => r.bgOpacity \in 0..100

\* C7 as stated: for every text and default d, a complete wrapper
\* [bg_opacity=N]T[/bg_opacity] with 0 <= N <= 100 yields cleanText T and opacity N; a
\* text with no wrapper yields the text unchanged and opacity d; a wrapper whose N is
\* above 100 or not a number yields opacity d; the opacity is within [0,100] when d
\* is; the canvas implementation and the preview's return the same pair.
C7_OpacityParsing ==
    parsedPreview # NotRun =>
        LET t == subtitle
            d == defaultOpacity
            r == parsedPreview.result
            c == parsedCanvas.result
        IN  /\ IsWrapper(t) /\ Decimal(WrapperValue(t)) <= 100
                  => r = [cleanText |-> WrapperBody(t), bgOpacity |-> Decimal(WrapperValue(t))]
            /\ HasWrapperShape(t) /\ ~AllDigits(WrapperValue(t)) => r.bgOpacity = d
            /\ OpacityRules(t, d, r)
            /\ c.drawn => c.processedText = r.cleanText /\ c.backgroundOpacity = r.bgOpacity

\* What the two implementations do on such texts (a supporting property, not the
\* statement of C7): the text kept ends at the first closing tag in any case, the
\* opacity of a text whose leading wrapper has no number is that of the first
\* complete wrapper further in, and the canvas draws nothing for the empty text.
C7_OpacityParsingFirstClose ==
    parsedPreview # NotRun =>
        LET t == subtitle
            d == defaultOpacity
            r == parsedPreview.result
            c == parsedCanvas.result
        IN  /\ (/\ IsWrapper(t)
                /\ Decimal(WrapperValue(t)) <= 100
                /\ ~OccursAnyCase(CloseTag, WrapperBody(t)))
                  => r = [cleanText |-> WrapperBody(t), bgOpacity |-> Decimal(WrapperValue(t))]
            /\ (/\ HasWrapperShape(t)
                /\ ~AllDigits(WrapperValue(t))
                /\ ~HoldsCompleteWrapper(t))
                  => r.bgOpacity = d
            /\ OpacityRules(t, d, r)
            /\ c.drawn <=> t # <<>>
            /\ c.drawn => c.processedText = r.cleanText /\ c.backgroundOpacity = r.bgOpacity

\* [bg_opacity=40] there[/bg_opacity] was parsed with default 70 by both
\* implementations, giving " there" and 40.
C7_Witness ==
    /\ subtitle = WrapperOpen40 \o Plain \o WrapperClose
    /\ defaultOpacity = SubtitleDefaultOpacity
    /\ parsedPreview = [run |-> TRUE, result |-> [cleanText |-> Plain, bgOpacity |-> 40]]
    /\ parsedCanvas # NotRun
    /\ parsedCanvas.result.processedText = Plain
    /\ parsedCanvas.result.backgroundOpacity = 40

\* a well-formed span at position i of s: [color= then a colour without [ ] or line
\* break, then ], then a text without [ or line break, then [/color]
SpanColorEnd(s, i) == Min({ j \in (i + Len(ColorOpen))..(Len(s) + 1) : j > Len(s) \/ s[j] \in {"[", "]", "\n"} })
SpanTextEnd(s, j) == Min({ k \in (j + 1)..(Len(s) + 1) : k > Len(s) \/ s[k] \in {"[", "\n"} })
IsSpanAt(s, i) ==
    /\ IsAt(ColorOpen, s, i)
    /\ SpanColorEnd(s, i) <= Len(s)
    /\ s[SpanColorEnd(s, i)] = "]"
    /\ IsAt(ColorClose, s, SpanTextEnd(s, SpanColorEnd(s, i)))
SpanRun(s, i) ==
    [text |-> SubSeq(s, SpanColorEnd(s, i) + 1, SpanTextEnd(s, SpanColorEnd(s, i)) - 1),
     color |-> SubSeq(s, i + Len(ColorOpen), SpanColorEnd(s, i) - 1)]
SpanEnd(s, i) == SpanTextEnd(s, SpanColorEnd(s, i)) + Len(ColorClose)
WhiteRun(s, from, to) ==
    IF from <= to THEN << [text |-> SubSeq(s, from, to), color |-> White] >> ELSE <<>>

\* the runs C8 describes: the well-formed spans in order, and between them the
\* stretches of text that are not empty, in white
RECURSIVE RunsFrom(_, _, _)
RunsFrom(s, i, whiteFrom) ==
    IF i > Len(s) THEN WhiteRun(s, whiteFrom, Len(s))
    ELSE IF IsSpanAt(s, i)
    THEN WhiteRun(s, whiteFrom, i - 1) \o << SpanRun(s, i) >>
         \o RunsFrom(s, SpanEnd(s, i), SpanEnd(s, i))
    ELSE RunsFrom(s, i + 1, whiteFrom)

\* C8: parseColoredText returns, for every text, the runs in input order: each
\* well-formed [color=C]T[/color] span as the run {text: T, color: C}, each stretch
\* of text before, between or after spans that is not empty as a white run, and so a
\* text without a well-formed span as a single white run.
C8_ColorRuns ==
    colorRuns # NotRun => colorRuns.result = RunsFrom(subtitle, 1, 1)

RECURSIVE Flatten(_)
Flatten(ss) == IF ss = <<>> THEN <<>> ELSE Head(ss) \o Flatten(Tail(ss))

\* a wrapper tag stands in s: [bg_opacity], [/bg_opacity] or [bg_opacity=N]
ShowsWrapperTag(s) ==
    \/ Occurs(<<"[">> \o TagName \o <<"]">>, s)
    \/ Occurs(CloseTag, s)
    \/ \E i \in 1..Len(s) :
          /\ IsAt(OpenPrefix, s, i)
          /\ \E e \in (i + Len(OpenPrefix) + 1)..Len(s) :
                /\ s[e] = "]"
                /\ AllDigits(SubSeq(s, i + Len(OpenPrefix), e - 1))

\* C9: for every subtitle without a complete opacity wrapper, what is drawn shows no
\* literal wrapper tag, on the canvas and in the preview, under every template.
C9_NoLiteralWrapperTag ==
    ~HoldsCompleteWrapper(subtitle) =>
        /\ canvasSubtitle # NotRun =>
              \A i \in 1..Len(canvasSubtitle.lines) :
                  ~ShowsWrapperTag(Flatten(canvasSubtitle.lines[i]))
        /\ previewSubtitle # NotRun => ~ShowsWrapperTag(Flatten(previewSubtitle.shown))

\* --------------------------------------------------------------- seek claim
\* C11: a seek to position t, whether the driver is playing or not, sets playbackTime
\* to exactly t, leaves isPlaying unchanged, and repaints the preview canvas for time
\* t in the same step, with no tick of the animation loop in between.
C11_SeekSetsTimeAndRepaints ==
    [][lastCall'.name = "SeekTo" =>
          LET t == lastCall'.args[1]
          IN  /\ playbackTime' = t
              /\ isPlaying' = isPlaying
              /\ lastTimestampRef' = lastTimestampRef
              /\ canvas' = (IF clips = <<>> THEN Placeholder
                            ELSE IF \E i \in 1..Len(clips) : InSpan(clips, i, t)
                            THEN clips[CHOOSE i \in 1..Len(clips) : InSpan(clips, i, t)].id
                            ELSE clips[Len(clips)].id)]_vars

\* C11 witness: while playing, after a tick, the slider was moved to 2 s, into the
\* second clip, which the canvas now shows.
C11_Witness ==
    /\ lastCall = [name |-> "SeekTo", args |-> <<2000>>]
    /\ isPlaying
    /\ lastTimestampRef > 0
    /\ playbackTime = 2000
    /\ Len(clips) >= 2
    /\ canvas = clips[2].id

\* ------------------------------------------------- export capability claim
\* the failures of an export that come from an API the environment does not have
MissingCapability ==
    {"VideoEncoder is undefined", "window.AudioEncoder is not a constructor",
     "window.AudioData is not a constructor", "VideoFrame is not defined"}

\* C12: when VideoEncoder, AudioEncoder, AudioData or VideoFrame is absent, the export
\* fails before any work begins - no encoder is created, no audio is read or decoded,
\* no frame is encoded - with a user-facing message, isRendering back to false and no
\* generated video URL.
C12_MissingCapabilityFailsFast ==
    lastError \in MissingCapability =>
        /\ pc = "returned"
        /\ ~isRendering
        /\ generatedVideoUrl = "null"
        /\ alertShown # "" \/ ShownMessage # <<>>
        /\ videoEncoderState = "none"
        /\ audioEncoderState = "none"
        /\ trackIndex = 0
        /\ audioChunks = <<>>
        /\ videoFrames = <<>>

\* ------------------------------------------------- timeline operation claim
Without(cl, i) == SubSeq(cl, 1, i - 1) \o SubSeq(cl, i + 1, Len(cl))
ClipUpdates ==
    {"handleClipSubtitleChange", "handleClipBackgroundTypeChange",
     "handleClipBackgroundColorChange", "handleClipImageChange", "handleClipAudioChange"}

\* C13: each timeline operation changes only what it names.  Deleting a clip by id
\* removes exactly that clip and keeps the other clips, their order and their fields;
\* a drag yields a permutation of the same clips with every field unchanged, and
\* leaves the timeline as it is when the clip is dropped on itself or on no target; a
\* subtitle, background, image or audio update changes only the clip with the id.
C13_OperationsChangeOnlyWhatTheyName ==
    [][LET name == lastCall'.name
           args == lastCall'.args
       IN  /\ name = "handleDeleteClip" =>
                 \E i \in 1..Len(clips) : clips[i].id = args[1] /\ clips' = Without(clips, i)
           /\ name = "handleDragEnd" =>
                 /\ IsReorderOf(clips, clips')
                 /\ (args[2] = NoId \/ args[2] = args[1]) => clips' = clips
           /\ name \in ClipUpdates =>
                 /\ Len(clips') = Len(clips)
                 /\ \A i \in 1..Len(clips) :
                       /\ clips'[i].id = clips[i].id
                       /\ clips[i].id # args[1] => clips'[i] = clips[i]]_vars

\* C13 witness: clip 2 was deleted from a timeline that had been reordered to 3, 1, 2
\* and whose clips 1 and 3 had been edited; both are left as they were.
C13_Witness ==
    /\ lastCall = [name |-> "handleDeleteClip", args |-> <<2>>]
    /\ Len(clips) = 2
    /\ clips[1] = [NewClip(3) EXCEPT !.image = [id |-> "id_201"], !.backgroundType = "image"]
    /\ clips[2] = [NewClip(1) EXCEPT !.subtitle = <<"h", "i">>]

\* ------------------------------------------------------ audio timestamp claim
\* the tracks C14 describes for a clip list: one per clip that has audio, in timeline
\* order, each starting where the decoded audio before it ends, in microseconds
RECURSIVE TracksFrom(_, _)
RECURSIVE SpanTracksFrom(_, _)
TracksFrom(cl, start) ==
    IF cl = <<>> THEN <<>>
    ELSE IF ~HasAudio(Head(cl)) THEN TracksFrom(Tail(cl), start)
    ELSE << [audio |-> Head(cl).audio.id, timestamp |-> start] >>
         \o TracksFrom(Tail(cl), start + DecodedDuration(Head(cl).audio) * 1000)

AudioPhaseDone == pc = "videoFlush" \/ (pc = "returned" /\ generatedVideoUrl = "blob:video/mp4")

\* C14: in the audio phase the clips' audio tracks are encoded in timeline order and
\* the k-th track starts at the sum, in microseconds, of the decoded durations of the
\* tracks encoded before it, not of the declared clip durations; a clip without audio
\* adds nothing.
C14_AudioTimestampsAreDecodedSums ==
    LET expected == TracksFrom(rClips, 0)
    IN  /\ Len(audioChunks) <= Len(expected)
        /\ audioChunks = SubSeq(expected, 1, Len(audioChunks))
        /\ AudioPhaseDone => audioChunks = expected

\* C14 witness: an export of a clip without audio, a clip whose audio decodes to 0.7 s
\* (declared duration unknown) and a clip with a third audio has finished; the second
\* track starts at 700000.
C14_Witness ==
    /\ pc = "returned"
    /\ generatedVideoUrl = "blob:video/mp4"
    /\ Len(rClips) = 3
    /\ ~HasAudio(rClips[1])
    /\ rClips[2].audio.duration = Undefined
    /\ Len(audioChunks) = 2
    /\ audioChunks[2].timestamp = 700000

\* --------------------------------------------------------- image draw claim
Painted(layer) == layer \in Range_(painted.layers)
ImageUnavailable ==
    \/ clips[1].image = NoImage
    \/ painted.img = NoElement
    \/ ~painted.img.complete
    \/ painted.img.naturalWidth = 0
    \/ painted.img.naturalHeight = 0
HasTitleText ==
    CASE settings.template = "exam-korean" -> settings.examTitle # "" \/ settings.examTitleLine2 # ""
      [] OTHER -> settings.titleLine1 # "" \/ settings.titleLine2 # ""

\* C15: painting a frame for a clip whose background kind is image never fails: when
\* the clip has no image, or its image element is not found, has not finished
\* loading, or has natural width or height 0, the image draw is skipped and the rest
\* of the frame - background fill, chrome, titles, subtitle - is still painted.
C15_UnavailableImageIsSkipped ==
    (painted # NotRun /\ clips[1].backgroundType = "image") =>
        /\ painted.threw = "none"
        /\ ImageUnavailable => ~Painted("image")
        /\ Painted("background")
        /\ settings.template # "classic-dark" => Painted("chrome")
        /\ HasTitleText => Painted("titles")
        /\ clips[1].subtitle # <<>> => Painted("subtitle")

\* C15 witness: a frame was painted under exam-korean for a clip with a subtitle whose
\* image element is complete but broken (natural size 0 x 0): no image layer, the
\* rest is there.
C15_Witness ==
    /\ painted # NotRun
    /\ settings.template = "exam-korean"
    /\ clips[1].backgroundType = "image"
    /\ clips[1].image # NoImage
    /\ painted.img = Broken
    /\ painted.layers = <<"background", "titles", "chrome", "subtitle", "cta">>
\* ------------------------------------------------------------ the backend's claims
\* the short a request names is stored
Stored(p, id) == p \in DOMAIN projects /\ findIndex(projects[p], id) # 0
StoredShort(p, id) == projects[p][findIndex(projects[p], id)]
\* the step is the server's handling of a request to this route
Handles(route) == lastCall'.name = route
Arg(field) == lastCall'.args[field]

\* C16: GET .../report and GET .../report/pdf respond 404 Not Found when the project
\* id or the short id does not exist.
C16_MissingShortIs404 ==
    [][ ((Handles("GetReport") \/ Handles("GetReportPdf")) /\ ~Stored(Arg("projectId"), Arg("shortId")))
            => (httpResponse'.status = 404) ]_vars

\* C17: a short created with POST .../shorts can afterwards be fetched by its id with
\* status 200, and the fetched short's script, images, youtubeUrl, titleLine1 and
\* titleLine2 equal the values submitted in the create request.
RoundTripFields == {"script", "images", "youtubeUrl", "titleLine1", "titleLine2"}
C17_CreatedShortIsFetchedAsSubmitted ==
    [][ /\ (Handles("PostShort") /\ httpResponse'.status = 201) =>
              (\A f \in RoundTripFields \cap DOMAIN Arg("body") :
                   projects'[Arg("projectId")][Len(projects'[Arg("projectId")])][f] = Arg("body")[f])
        /\ (Handles("GetShort") /\ Stored(Arg("projectId"), Arg("shortId"))) =>
              (/\ httpResponse'.status = 200
               /\ httpResponse'.body = StoredShort(Arg("projectId"), Arg("shortId"))) ]_vars

\* a field the short holds, and holds something in
Present(obj, field) == field \in DOMAIN obj /\ obj[field] # ""

HasResult == pdfRequest.taskId \in DOMAIN puppeteerResponses
Result == puppeteerResponses[pdfRequest.taskId]
InWindow == serverClock - pdfRequest.pollStartTime < PollTimeout

C20_AudioThenVideoThenMux ==
    /\ [](pc \in AudioAwaits => videoFrames = <<>>)
    /\ [][ (videoFrames' # videoFrames /\ videoFrames' # <<>>) =>
               \/ audioTracks' = <<>>
               \/ /\ pc = "audioFlush"
                  /\ audioEncoderState = "configured"
                  /\ Len(audioChunks) = Len(audioTracks) ]_vars
    /\ [][ (generatedVideoUrl = "null" /\ generatedVideoUrl' # "null") =>
               /\ pc = "videoFlush"
               /\ videoEncoderState = "configured"
               /\ Len(videoFrames) = TotalFrames(rTotalDuration)
               /\ Len(audioChunks) = Len(audioTracks)
               /\ videoFrames' = videoFrames /\ audioChunks' = audioChunks ]_vars

\* C20 witness: an export of a timeline with audio has produced its blob after both
\* passes: audio chunks and video frames were encoded.
C20_Witness ==
    /\ generatedVideoUrl # "null"
    /\ pc = "returned"
    /\ audioChunks # <<>>
    /\ videoFrames # <<>>
\* ------------------------------------------------------------ playback, continued
\* the step is a tick of the playback loop
Ticked == lastCall'.name = "animatePlayback"

\* C21 as stated: every tick taken while Playing adds its delta to playbackTime, and
\* a tick taken while paused or stopped adds nothing, so that the growth of
\* playbackTime is the sum of the deltas of the ticks taken while Playing.
C21_GrowthIsSumOfPlayingDeltas ==
    [][ Ticked =>
          (playbackTime' - playbackTime = IF isPlaying THEN TickDelta ELSE 0) ]_vars

\* C21: a tick taken while paused or stopped leaves playbackTime unchanged and only
\* refreshes the last-tick timestamp; a tick taken while Playing adds the time since
\* the previous tick, whether that tick was taken while Playing or not, and no more
\* than what is left up to totalDuration.
C21_TicksAdvanceOnlyWhilePlaying ==
    [][ Ticked =>
          /\ lastTimestampRef' > lastTimestampRef
          /\ ~isPlaying => (playbackTime' = playbackTime /\ ~isPlaying')
          /\ isPlaying =>
                playbackTime' = IF playbackTime + TickDelta >= totalDuration
                                THEN totalDuration
                                ELSE playbackTime + TickDelta ]_vars

\* C21 witness: playback is running 1 s into a timeline while the loop's clock has
\* reached 5.5 s: ticks were taken that did not count.
C21_Witness ==
    /\ lastCall.name = "animatePlayback"
    /\ isPlaying
    /\ playbackTime = 1000
    /\ lastTimestampRef = 5500
    /\ totalDuration > 1000

\* ---------------------------------------------------------------- claim C22
\* C22: the rectangle drawUserImage passes to drawImage lies inside the vertical
\* band of the template (destY >= minY, destY + destHeight <= maxY, destHeight >= 0)
\* for every image size, imageScale and template settings; an image taller than the
\* band is shrunk to the band's height keeping its ratio, a shorter one keeps its
\* scaled size and is centred in the band.
DrawnImage == ElementOf(imageElements, clips[1].image.id)
ImageDrawn == painted # NotRun /\ Painted("image")
C22_ImageStaysInBand ==
    ImageDrawn =>
        LET rect == painted.rect
            band == imageBand(settings)
            availableHeight == band.maxY - band.minY
            scaledWidth == 2 * DrawnImage.naturalWidth * settings.imageScale
            scaledHeight == 2 * DrawnImage.naturalHeight * settings.imageScale
        IN  /\ rect.destY >= band.minY
            /\ rect.destY + rect.destHeight <= band.maxY
            /\ rect.destHeight >= 0
            /\ scaledHeight > availableHeight =>
                   /\ rect.destHeight = availableHeight
                   /\ rect.destWidth = [n |-> DrawnImage.naturalWidth * rect.destHeight,
                                         d |-> DrawnImage.naturalHeight]
            /\ scaledHeight <= availableHeight =>
                   /\ rect.destHeight = scaledHeight
                   /\ rect.destWidth = [n |-> scaledWidth, d |-> 1]
                   /\ 2 * rect.destY + rect.destHeight = band.minY + band.maxY

\* ---------------------------------------------------------------- claim C30
\* C30: the rectangle passed to drawImage is horizontally centred in the frame,
\* destX + destWidth / 2 = RENDER_WIDTH / 2, when the scaled image fits the band and
\* when it was shrunk to fit it.  With destX = x.n / x.d and destWidth = w.n / w.d
\* (x.d = 2) the equation is x.n * w.d + w.n = RENDER_WIDTH * w.d.
C30_ImageIsCentredHorizontally ==
    ImageDrawn =>
        LET rect == painted.rect
            W == RENDER_DIMENSIONS(settings.aspectRatio).width
        IN  /\ rect.destX.d = 2
            /\ rect.destX.n * rect.destWidth.d + rect.destWidth.n
                  = Units(W) * rect.destWidth.d

\* ---------------------------------------------------------------- claim C24
\* C24: once an image file was dropped into the bin, assigned to a clip whose
\* background is the image, and has finished loading with a non-zero size, painting
\* a frame of that clip draws the image: the element handleFileDrop registered is
\* the one drawUserImage finds.
\* image.file.name of the image of the bin: the key handleFileDrop stores under
FileName(image) == "photo.png"
RegisteredElement == ElementOf(imageElements, FileName(clips[1].image))
C24_DroppedImageIsDrawn ==
    ( /\ painted # NotRun
      /\ clips[1].image \in ImageBin
      /\ clips[1].backgroundType = "image"
      /\ RegisteredElement.complete
      /\ RegisteredElement.naturalWidth > 0
      /\ RegisteredElement.naturalHeight > 0 )
    => Painted("image")

\* ---------------------------------------------------------------- claim C23
\* C23: the fullscreen preview, opened on a non-empty clip list, starts at clip 0 and
\* time 0 and plays through: a tick while it is open and playing adds its delta to
\* timeInClip, leaves the clip once the clip's effective duration (its audio
\* duration, or the default clip duration without audio) has elapsed, and on the
\* last clip stops playback.
PreviewHandles(name) == lastCall'.name = name
C23_PreviewPlaysThroughTheClips ==
    [][ /\ PreviewHandles("openPreview") =>
              (preview'.currentClipIndex = 0 /\ preview'.timeInClip = 0
               /\ preview'.isPlaying)
        /\ (PreviewHandles("animate") /\ preview.isOpen /\ preview.isPlaying
            /\ preview.currentClipIndex < Len(clips)) =>
              LET newTime == preview.timeInClip + (preview'.now - preview.lastTimeRef)
                  duration == ClipDuration(clips[preview.currentClipIndex + 1])
              IN  IF newTime < duration
                  THEN /\ preview'.timeInClip = newTime
                       /\ preview'.currentClipIndex = preview.currentClipIndex
                  ELSE IF preview.currentClipIndex < Len(clips) - 1
                  THEN /\ preview'.currentClipIndex = preview.currentClipIndex + 1
                       /\ preview'.timeInClip = 0
                  ELSE ~preview'.isPlaying ]_vars

\* ---------------------------------------------------------------- claim C25
\* C25: in an exported file the audio of every clip that has audio is encoded at the
\* timestamp at which the clip's video span starts, the sum of the effective
\* durations of all earlier clips, whether or not those have audio.
\* the audio tracks of cl with the start of each clip's video span, microseconds
SpanTracksFrom(cl, start) ==
    IF cl = <<>> THEN <<>>
    ELSE (IF HasAudio(Head(cl))
          THEN << [audio |-> Head(cl).audio.id, timestamp |-> start] >>
          ELSE <<>>)
         \o SpanTracksFrom(Tail(cl), start + ClipDuration(Head(cl)) * 1000)

C25_AudioStartsWithItsClip ==
    AudioPhaseDone => audioChunks = SpanTracksFrom(rClips, 0)

\* ---------------------------------------------------------------- claim C26
\* C26: at most one export runs at a time.  A call of handleRender while an export is
\* in flight starts no second pipeline and leaves the progress, the message and the
\* video URL of the running export as they are; whenever no export is in flight
\* (none was started, or the attempt ended by success, failure or early return)
\* isRendering is false.
ExportInFlight == pc \in InFlight
CalledAgain == lastCall'.name = "handleRender" /\ lastCall' # lastCall
C27_PlaybackTimeWithinTimeline ==
    0 <= playbackTime /\ playbackTime <= totalDuration

\* ---------------------------------------------------------------- claim C28
\* C28: when two requests that change the shorts of one project are handled at the
\* same time, a POST together with a POST or with a PUT or DELETE of another short,
\* then once both have responded with success the stored project holds both
\* changes: the created shorts are there with distinct ids, an updated short is
\* stored as updated, a deleted short is gone.
StoredShorts == projects[StoredProject]
Succeeded(req) == req.at = "responded" /\ req.status \in {200, 201, 204}
ChangeIsStored(req) ==
    CASE req.route = "POST shorts" ->
           \E i \in 1..Len(StoredShorts) : StoredShorts[i] = req.result
      [] req.route = "PUT short" ->
           \E i \in 1..Len(StoredShorts) : StoredShorts[i] = req.result
      [] req.route = "DELETE short" ->
           \A i \in 1..Len(StoredShorts) : StoredShorts[i].id # req.shortId
DistinctIds ==
    \A i, j \in 1..Len(StoredShorts) : StoredShorts[i].id = StoredShorts[j].id => i = j
SomePost == \E r \in Requests : inFlight[r].route = "POST shorts"
C28_ConcurrentChangesAreAllStored ==
    (SomePost /\ \A r \in Requests : Succeeded(inFlight[r])) =>
        /\ \A r \in Requests : ChangeIsStored(inFlight[r])
        /\ DistinctIds

\* ---------------------------------------------------------------- claim C29
\* C29: the Puppeteer worker takes the tasks one at a time in the order they were
\* pushed, and for every generate_pdf_from_html task it pops it writes a result,
\* status success or error, under the task's id before it pops the next one, also
\* when the browser page cannot be acquired or the rendering throws.
PoppedTask == puppeteerTasks[Len(puppeteerTasks)]
C29_EveryPoppedTaskGetsAResult ==
    [][ Handles("PuppeteerWorker") =>
          /\ PoppedTask = pushedTasks[Len(pushedTasks) - Len(puppeteerTasks) + 1]
          /\ Len(puppeteerTasks') = Len(puppeteerTasks) - 1
          /\ PoppedTask.task_id \in DOMAIN puppeteerResponses'
          /\ puppeteerResponses'[PoppedTask.task_id].status \in {"success", "error"}
          /\ puppeteerResponses'[PoppedTask.task_id].writtenAt = serverClock ]_vars
====
